---- MODULE Spec2Model ----
(***************************************************************************)
(* Demand-driven caching and refresh engine of the market data backend:    *)
(* TiingoMarketDataService (services/tiingo_market_data.rs) over the Redis *)
(* price store (services/redis.rs) and the Tiingo adapter                  *)
(* (services/market_data_provider/tiingo.rs).                              *)
(*                                                                         *)
(* Symbols are sequences of one-character strings so that clean_symbol and *)
(* format_output_symbol are computed as the code computes them.            *)
(* Time is the Unix timestamp in seconds; the clock advances in steps of   *)
(* TimeStep seconds.                                                       *)
(***************************************************************************)
EXTENDS Integers, Sequences, FiniteSets, TLC

\* ------------------------------------------------------------------------
\* Bounds of the model
\* ------------------------------------------------------------------------
TimeStep == 10
MaxTime == 20
\* How many calls (reads and sweeps) are started in one run with a working
\* store, and in one run with store faults
MaxCalls == 3
MaxFaultyCalls == 2
\* How many calls are started in one run with the long watchlist
MaxWatchCalls == 2
\* How many reads are started in one run with a client of the store
MaxClientCalls == 2
\* How many calls are started in one run in which store calls may hang
MaxHangCalls == 2
\* How many calls are started in one run with index records in the store
MaxIndexedCalls == 2
\* How many calls are started in one run that keeps what its sweeps owe
MaxTracedCalls == 2
MaxRefreshCalls == 3
\* How long the symbol lists loaded into the bulk symbol cache are, and the
\* largest limit passed to a search
MaxSymbols == 3
MaxLimit == 4
\* How many symbols the collections saved in chunks hold at most
MaxCollection == 4
\* The largest price and previous close an upstream quotes
MaxPrice == 5

\* ------------------------------------------------------------------------
\* Program constants
\* ------------------------------------------------------------------------
SYMBOL_PRICE_PREFIX == "market_data:symbol:"
MARKET_INDEX_PREFIX == "market_data:index:"
\* MARKET_DATA_CACHE_DURATION and MARKET_DATA_STALE_THRESHOLD are read from
\* the environment; the model runs the service with both configured short.
cache_duration == 20
stale_threshold == 10
\* "If TTL is <= 10, the key will expire soon"
DueTtl == 10
SymbolChunk == 20
IndexChunk == 10
\* "Start with a high score for consistent scoring"
start_score == 1000000
\* COUNT of one ZSCAN call (100 in the code; scaled so that a scan of the
\* lists loaded here takes more than one call)
ScanCount == 2
\* "Split into chunks of 5000 symbols each" (scaled so that the collections
\* saved here take more than one chunk)
CHUNK_SIZE == 2

\* ------------------------------------------------------------------------
\* Strings as sequences of characters
\* ------------------------------------------------------------------------
US == <<"U", "S">>
DotUS == <<".", "U", "S">>

Contains(s, c) == \E i \in 1..Len(s) : s[i] = c

\* str::find: position of the first occurrence of c, 0 when there is none
Find(s, c) ==
  IF Contains(s, c) THEN CHOOSE i \in 1..Len(s) : s[i] = c /\ \A j \in 1..(i-1) : s[j] # c
  ELSE 0

RECURSIVE Replace(_, _, _)
\* str::replace of every occurrence of the character c by the string t
Replace(s, c, t) ==
  IF s = <<>> THEN <<>>
  ELSE (IF Head(s) = c THEN t ELSE <<Head(s)>>) \o Replace(Tail(s), c, t)

clean_symbol(symbol) ==
  LET idx == Find(symbol, ".") IN
  IF idx # 0
  THEN IF SubSeq(symbol, idx + 1, Len(symbol)) = US
       THEN SubSeq(symbol, 1, idx - 1)
       ELSE Replace(symbol, ".", <<"-">>)
  ELSE IF Contains(symbol, "/")
       THEN Replace(symbol, "/", <<>>)
       ELSE symbol

format_output_symbol(symbol) ==
  IF Contains(symbol, ".") THEN symbol ELSE symbol \o DotUS

\* Byte order of the characters used, as Redis compares sorted-set members
Letters ==
  <<"A", "B", "C", "D", "E", "F", "G", "H", "I", "J", "K", "L", "M",
    "N", "O", "P", "Q", "R", "S", "T", "U", "V", "W", "X", "Y", "Z">>

CharCode(c) ==
  CASE c = "-" -> 45 [] c = "." -> 46 [] c = "/" -> 47
    [] OTHER -> 64 + (CHOOSE i \in 1..Len(Letters) : Letters[i] = c)

RECURSIVE LexLess(_, _)
LexLess(a, b) ==
  IF b = <<>> THEN FALSE
  ELSE IF a = <<>> THEN TRUE
  ELSE IF Head(a) # Head(b) THEN CharCode(Head(a)) < CharCode(Head(b))
  ELSE LexLess(Tail(a), Tail(b))

\* ------------------------------------------------------------------------
\* Inputs
\* ------------------------------------------------------------------------
SymA == <<"A">>
SymAUS == <<"A", ".", "U", "S">>
SymBUS == <<"B", ".", "U", "S">>
\* Symbol lists a caller passes to get_symbol_prices
RequestLists == { <<>>, <<SymA>>, <<SymAUS, SymBUS>> }
\* Index lists a caller passes to get_market_indices
IndexLists == { <<>>, <<SymBUS>> }
\* A watchlist one symbol longer than a sweep batch: A.US, B.US, ...
Watchlist == [i \in 1..(SymbolChunk + 1) |-> <<Letters[i]>> \o DotUS]

Range(f) == { f[x] : x \in DOMAIN f }
Restrict(f, S) == [x \in S |-> f[x]]
Put(f, k, v) == [x \in (DOMAIN f) \cup {k} |-> IF x = k THEN v ELSE f[x]]
EmptyMap == [x \in {} |-> 0]

\* ------------------------------------------------------------------------
\* State
\* ------------------------------------------------------------------------
VARIABLES
  now,        \* Utc::now().timestamp()
  store,      \* Redis string keys: <<prefix, symbol>> -> [value, expires]
  accessed,   \* sorted set market_data:accessed_symbols: entries [member, score]
  update_lock,\* holder of TiingoMarketDataService.update_lock, or "free"
  reader,     \* the request handler task running a read
  rres,       \* what the last read returned to its caller
  sweeper,    \* the tasks calling update_all_cached_data
  sres,       \* what the last update_all_cached_data to return returned
  started,    \* the number of reads and sweeps started so far
  adapter,    \* the last call of the adapter made on its own, with its requests
  client,     \* a client of the price store: the writes seen and its last get
  catalog,    \* the symbols:* keys of SymbolCacheService and its callers' results
  chunked,    \* the symbols_* keys of SymbolService, its save under way and its load
  quoted,     \* the last price record an adapter made of an upstream quote
  tradingview,\* the value under INDICES_KEY and the last answer of the indices service
  symsvc,     \* SymbolService: its collection and lock, its keys, its initialize_cache
  indexsvc,   \* MarketIndexService: its provider and lock, its indices, its calls
  news,       \* NewsService: the cached responses and the last answer of get_news
  tracked_by  \* in a run that keeps them: the symbols each kind of read has asked for

vars == <<now, store, accessed, update_lock, reader, rres, sweeper, sres, started, adapter, client,
          catalog, chunked, quoted, tradingview, symsvc, indexsvc, news, tracked_by>>

\* Keys of one namespace for prices and indices alike
KeyOfSymbol(prefix, symbol) == <<SYMBOL_PRICE_PREFIX, symbol>>

\* format!("{}{}", prefix, symbol)
Key(prefix, symbol) == <<prefix, symbol>>

\* ------------------------------------------------------------------------
\* Store faults: every Redis call of the service may fail (connection,
\* command or serialization error) when the run is one with store faults
\* ------------------------------------------------------------------------
\* Outcomes of one store call
Oks(faulty) == IF faulty THEN BOOLEAN ELSE {TRUE}
\* The calls that fail among the independent store calls S
Failures(S, faulty) == IF faulty THEN SUBSET S ELSE {{}}
\* How many of n store calls in a row succeed before the first failure
\* (n when none fails), counted from `first`
Successes(first, n, faulty) == IF faulty THEN first..n ELSE {n}

\* ------------------------------------------------------------------------
\* Price Store (services/redis.rs over Redis SETEX / GET / TTL / DEL)
\* ------------------------------------------------------------------------
\* A store whose set keeps the expiry a key already has
RedisSetKeepExpiry(st, key, value, expiry, t) ==
  Put(st, key, [value |-> value,
                expires |-> IF key \in DOMAIN st THEN st[key].expires ELSE t + expiry])

\* SETEX key value expiry: overwrite, expiring expiry seconds from now
RedisSet(st, key, value, expiry, t) ==
  Put(st, key, [value |-> value, expires |-> t + expiry])

\* GET key: Some(value), or None for absent and expired keys alike
RedisGet(st, key) ==
  IF key \in DOMAIN st THEN [some |-> TRUE, value |-> st[key].value]
  ELSE [some |-> FALSE,
        value |-> [symbol |-> <<>>, price |-> 0, change |-> 0, percent_change |-> 0]]

\* TTL key: remaining seconds, -2 when the key does not exist
RedisTtl(st, key, t) ==
  IF key \in DOMAIN st THEN st[key].expires - t ELSE -2

\* DEL key
RedisDel(st, keys) == Restrict(st, (DOMAIN st) \ keys)

\* A store that serves a key after its expiry has passed
ExpireNever(st, t) == st

\* Redis drops a key once its expiry has passed
Expire(st, t) == Restrict(st, { k \in DOMAIN st : st[k].expires > t })

\* The writes seen per key: when the key was first and last written, and the
\* expiry the writer asked for (every set passes cache_duration); st2 is the
\* store after the writes made at time t to st
WriteHistory(history, st, st2, t) ==
  LET written == { k \in DOMAIN st2 : k \notin DOMAIN st \/ st2[k] # st[k] }
  IN [k \in (DOMAIN history) \cup written |->
        IF k \in written
        THEN [first |-> IF k \in DOMAIN history THEN history[k].first ELSE t,
              last |-> t, expiry |-> cache_duration]
        ELSE history[k]]

\* ------------------------------------------------------------------------
\* Provider adapter (TiingoClient)
\* ------------------------------------------------------------------------
\* What one upstream endpoint answers for one symbol: a quote, nothing
\* (404 / empty body), or a transport / status / parse error
Outcomes == { "some", "none", "err" }

\* The price the upstream quotes at time t: the market moves with the clock,
\* so that records fetched at different times differ
BasePrice == 150
Quote(t) == BasePrice + t

\* What the end-of-day endpoint answers for a date range: prices, 404,
\* an empty list, or a transport / status / parse error
EodOutcomes == { "some", "none", "empty", "err" }

\* The answers of the upstream for one symbol: the IEX quote, the end-of-day
\* prices of today, and the end-of-day prices of the two days before
AllAnswers == [iex : Outcomes, eod : EodOutcomes, prev : EodOutcomes]

\* The answers the engine is run against: the end-of-day answer is not looked
\* at when the real-time quote is present, and the prior close is known
UpstreamAnswers ==
  { u \in [iex : Outcomes, eod : Outcomes, prev : {"some"}] : u.iex = "some" => u.eod = "none" }

\* What the upstream answers for the symbols of one adapter call: any answer
\* per symbol, or (for long watchlists) the same answer for every symbol
Upstreams(symbols, uniform) ==
  IF uniform
  THEN { [c \in { clean_symbol(s) : s \in Range(symbols) } |-> u] : u \in UpstreamAnswers }
  ELSE [ { clean_symbol(s) : s \in Range(symbols) } -> UpstreamAnswers ]

\* Every combination of answers for the symbols of one adapter call
AllUpstreams(symbols) == [ { clean_symbol(s) : s \in Range(symbols) } -> AllAnswers ]

\* SymbolPrice with change and percent_change computed from the previous
\* close (the percentage in whole percents)
SymbolPrice(symbol, price, prev_close) ==
  [symbol |-> symbol, price |-> price, change |-> price - prev_close,
   percent_change |-> IF prev_close # 0 THEN ((price - prev_close) * 100) \div prev_close
                      ELSE 0]

\* Ok(None) and Err(ExternalServiceError) of the fetch functions
NoData == [ok |-> TRUE, some |-> FALSE, price |-> SymbolPrice(<<>>, 0, 0)]
FetchError == [ok |-> FALSE, some |-> FALSE, price |-> SymbolPrice(<<>>, 0, 0)]

\* Result<Option<SymbolPrice>, ApiError> of the real-time endpoint; the quote
\* carries yesterday's close (BasePrice) as prevClose
fetch_iex_data(symbol, answer, t) ==
  CASE answer.iex = "err" -> FetchError
    [] answer.iex = "none" -> NoData
    [] OTHER -> [ok |-> TRUE, some |-> TRUE,
                 price |-> SymbolPrice(format_output_symbol(symbol), Quote(t), BasePrice)]

\* fetch_previous_close: Result<Option<f64>, ApiError>; every status other
\* than success is Ok(None)
fetch_previous_close(answer) ==
  CASE answer.prev = "err" -> [ok |-> FALSE, some |-> FALSE, close |-> 0]
    [] answer.prev = "some" -> [ok |-> TRUE, some |-> TRUE, close |-> BasePrice]
    [] OTHER -> [ok |-> TRUE, some |-> FALSE, close |-> 0]

\* fetch_previous_eod_data: the close of the prior trading day, with change
\* and percent_change set to 0
fetch_previous_eod_data(symbol, answer) ==
  CASE answer.prev = "err" -> FetchError
    [] answer.prev = "some" ->
         [ok |-> TRUE, some |-> TRUE,
          price |-> [symbol |-> format_output_symbol(symbol), price |-> BasePrice,
                     change |-> 0, percent_change |-> 0]]
    [] OTHER -> NoData

\* Result<Option<SymbolPrice>, ApiError> of the end-of-day endpoint
fetch_eod_data(symbol, answer, t) ==
  CASE answer.eod = "err" -> FetchError
    [] answer.eod = "none" -> NoData
    [] answer.eod = "empty" -> fetch_previous_eod_data(symbol, answer)
    [] OTHER ->
         LET close == fetch_previous_close(answer)
             prev_close == IF close.ok /\ close.some THEN close.close ELSE Quote(t)
         IN [ok |-> TRUE, some |-> TRUE,
             price |-> SymbolPrice(format_output_symbol(symbol), Quote(t), prev_close)]

\* The records one symbol contributes to the batch result
FetchOne(symbol, up, t) ==
  LET clean == clean_symbol(symbol)
      iex == fetch_iex_data(clean, up[clean], t)
      eod == fetch_eod_data(clean, up[clean], t)
  IN IF iex.ok /\ iex.some THEN <<iex.price>>
     ELSE IF eod.ok /\ eod.some THEN <<eod.price>>
     ELSE <<>>

\* The requests the adapter sends for one symbol, in order
Queries(symbol, up) ==
  LET answer == up[clean_symbol(symbol)]
  IN <<"iex">> \o
     (IF answer.iex = "some" THEN <<>>
      ELSE <<"eod">> \o (CASE answer.eod = "empty" -> <<"prev_eod">>
                           [] answer.eod = "some" -> <<"prev_close">>
                           [] OTHER -> <<>>))

\* How the fetch of one symbol ends: with a record, without data, or with
\* the error of the endpoint asked last
Outcome(symbol, up) ==
  LET clean == clean_symbol(symbol)
      iex == fetch_iex_data(clean, up[clean], 0)
      eod == fetch_eod_data(clean, up[clean], 0)
  IN IF (iex.ok /\ iex.some) \/ (eod.ok /\ eod.some) THEN "some"
     ELSE IF ~eod.ok THEN "err"
     ELSE "none"

RECURSIVE FetchAllUntilError(_, _, _)
\* An adapter whose loop ends at the first symbol that ends with an error
FetchAllUntilError(symbols, up, t) ==
  IF symbols = <<>> \/ Outcome(Head(symbols), up) = "err" THEN <<>>
  ELSE FetchOne(Head(symbols), up, t) \o FetchAllUntilError(Tail(symbols), up, t)

RECURSIVE FetchAll(_, _, _)
FetchAll(symbols, up, t) ==
  IF symbols = <<>> THEN <<>>
  ELSE FetchOne(Head(symbols), up, t) \o FetchAll(Tail(symbols), up, t)

\* An adapter that fails the whole call when the upstream answers one of the
\* symbols with errors only
fetch_market_data_failing(symbols, up, t) ==
  IF \E s \in Range(symbols) :
       up[clean_symbol(s)].iex = "err" /\ up[clean_symbol(s)].eod = "err"
  THEN [ok |-> FALSE, prices |-> <<>>]
  ELSE [ok |-> TRUE, prices |-> FetchAll(symbols, up, t)]

\* TiingoClient::fetch_market_data: Result<Vec<SymbolPrice>, ApiError>
fetch_market_data(symbols, up, t) ==
  IF symbols = <<>> THEN [ok |-> TRUE, prices |-> <<>>]
  ELSE [ok |-> TRUE, prices |-> FetchAll(symbols, up, t)]

\* TiingoClient::fetch_market_indices: Tiingo has no index data
fetch_market_indices(indices) == [ok |-> TRUE, indices |-> <<>>]

\* ------------------------------------------------------------------------
\* Access Tracker
\* ------------------------------------------------------------------------
Members(acc) == { e.member : e \in acc }
Entries(acc, member) == { e \in acc : e.member = member }
Score(acc, member) == (CHOOSE e \in acc : e.member = member).score

\* A tracker that appends an entry per access instead of updating the score
ZaddAppend(acc, score, member) == acc \cup { [member |-> member, score |-> score] }

\* ZADD key score member: adds the member, or updates the score it has
Zadd(acc, score, member) ==
  (acc \ Entries(acc, member)) \cup { [member |-> member, score |-> score] }

\* ZREM key member...
Zrem(acc, members) == { e \in acc : e.member \notin members }

RECURSIVE ZaddAll(_, _, _)
\* The ZADD loop of track_accessed_symbols
ZaddAll(acc, symbols, score) ==
  IF symbols = <<>> THEN acc
  ELSE ZaddAll(Zadd(acc, score, Head(symbols)), Tail(symbols), score)

\* In a run that keeps the write history, the writes of this step are added
Recorded(run) ==
  client' = IF run.history
            THEN [client EXCEPT !.history = WriteHistory(client.history, store, store', now)]
            ELSE client

\* ------------------------------------------------------------------------
\* Read path
\* ------------------------------------------------------------------------
IdleReader ==
  [pc |-> "idle", symbols |-> <<>>, cached |-> EmptyMap, to_fetch |-> <<>>,
   store_failed |-> FALSE, again |-> FALSE, prev |-> EmptyMap, expired |-> {},
   get_failed |-> {}]

NoResult ==
  [kind |-> "none", symbols |-> <<>>, ok |-> TRUE, err |-> "", prices |-> EmptyMap,
   calls |-> 0, hits |-> {}, up_failed |-> FALSE, store_failed |-> FALSE,
   track_failed |-> FALSE, again |-> FALSE, prev |-> EmptyMap, quiet |-> FALSE,
   expired |-> {}, get_failed |-> {}, set_failed |-> {}, asked |-> <<>>]

\* The call that starts now directly follows a completed, successful call
\* with the same arguments
Again(kind, symbols) ==
  /\ rres.kind = kind /\ rres.symbols = symbols
  /\ rres.ok /\ ~rres.store_failed /\ rres.quiet

\* What the read returns, with the facts about the call that the properties
\* below refer to
Result(kind, ok, err, prices, calls, hits, up_failed, store_failed) ==
  [kind |-> kind, symbols |-> reader.symbols, ok |-> ok, err |-> err, prices |-> prices,
   calls |-> calls, hits |-> hits, up_failed |-> up_failed,
   store_failed |-> store_failed, track_failed |-> FALSE,
   again |-> reader.again, prev |-> reader.prev, quiet |-> TRUE,
   expired |-> reader.expired, get_failed |-> reader.get_failed, set_failed |-> {},
   asked |-> <<>>]

\* track_accessed_symbols: the first zadds ZADDs succeed; the call fails when
\* the connection or one of the ZADDs fails
TrackOk(symbols, zadds) == zadds = Len(symbols)
Track(symbols, zadds) == ZaddAll(accessed, SubSeq(symbols, 1, zadds), now)

\* What a failed track_accessed_symbols does to the read
ReadAfterTrackError(kind, symbols) ==
  /\ reader' = IdleReader
  /\ rres' = [NoResult EXCEPT !.kind = kind, !.symbols = symbols, !.ok = FALSE,
                              !.err = "InternalError", !.store_failed = TRUE,
                              !.track_failed = TRUE,
                              !.quiet = TRUE]

\* The cache lookup loop: a failed GET counts as a miss
Hits(prefix, symbols, failed) ==
  { s \in Range(symbols) : s \notin failed /\ RedisGet(store, Key(prefix, s)).some }

\* A lookup that drops the symbols whose GET failed
MissesWithoutFailed(prefix, symbols, failed) ==
  SelectSeq(symbols, LAMBDA s : s \notin failed /\ s \notin Hits(prefix, symbols, failed))

\* A lookup that takes every requested symbol for a miss
MissesEverything(prefix, symbols, failed) == symbols

Misses(prefix, symbols, failed) ==
  SelectSeq(symbols, LAMBDA s : s \notin Hits(prefix, symbols, failed))

Cached(prefix, symbols, failed) ==
  [s \in Hits(prefix, symbols, failed) |-> RedisGet(store, Key(prefix, s)).value]

\* In a run that keeps the write history: the symbols to fetch whose record
\* was in the store once and is no longer
Expired(prefix, to_fetch, run) ==
  IF run.history
  THEN { x \in Range(to_fetch) : Key(prefix, x) \in (DOMAIN client.history) \ (DOMAIN store) }
  ELSE {}

RECURSIVE SetAllUntilError(_, _, _, _, _)
\* A caching loop that ends at the first SET that fails
SetAllUntilError(st, prefix, records, failed, offset) ==
  IF records = <<>> \/ (offset + 1) \in failed THEN st
  ELSE SetAllUntilError(RedisSet(st, Key(prefix, Head(records).symbol), Head(records),
                                 cache_duration, now),
                        prefix, Tail(records), failed, offset + 1)

\* A caching loop that replaces the content of the store by the records of
\* the batch
SetAllOnly(st, prefix, records, failed, offset) ==
  LET written == { i \in 1..Len(records) : (i + offset) \notin failed }
  IN [k \in { Key(prefix, records[i].symbol) : i \in written } |->
        [value |-> records[CHOOSE i \in written : Key(prefix, records[i].symbol) = k],
         expires |-> now + cache_duration]]

RECURSIVE SetAll(_, _, _, _, _)
\* The "cache the fresh data" loop: redis.set of every record under the key
\* of the record's own symbol; a failed SET is logged and skipped.
\* records[i] is written unless i + offset is in failed.
SetAll(st, prefix, records, failed, offset) ==
  IF records = <<>> THEN st
  ELSE LET rec == Head(records)
           st1 == IF (offset + 1) \in failed THEN st
                  ELSE RedisSet(st, Key(prefix, rec.symbol), rec, cache_duration, now)
       IN SetAll(st1, prefix, Tail(records), failed, offset + 1)

RECURSIVE InsertAll(_, _)
\* cached_prices.insert(price.symbol.clone(), price.clone()) for every record
InsertAll(map, records) ==
  IF records = <<>> THEN map
  ELSE InsertAll(Put(map, Head(records).symbol, Head(records)), Tail(records))


\* In a run that keeps them, the symbols of this read are added to its kind
TrackedBy(kind, symbols, run) ==
  IF run.tracing THEN [tracked_by EXCEPT ![kind] = @ \cup Range(symbols)] ELSE tracked_by

\* get_symbol_prices, up to and including track_accessed_symbols
GetSymbolPrices(symbols, run) ==
  /\ reader.pc = "idle"
  /\ started < run.calls
  /\ started' = started + 1
  /\ IF symbols = <<>>
     THEN /\ rres' = [NoResult EXCEPT !.kind = "prices", !.quiet = TRUE]
          /\ UNCHANGED <<reader, accessed>>
     ELSE \E zadds \in Successes(0, Len(symbols), run.faulty) :
          /\ accessed' = Track(symbols, zadds)
          /\ IF TrackOk(symbols, zadds)
             THEN /\ reader' = [IdleReader EXCEPT
                                  !.pc = "p_lookup", !.symbols = symbols,
                                  !.again = Again("prices", symbols),
                                  !.prev = IF Again("prices", symbols) THEN rres.prices
                                           ELSE EmptyMap]
                  /\ rres' = NoResult
             ELSE ReadAfterTrackError("prices", symbols)
  /\ UNCHANGED <<now, store, update_lock, sweeper, sres, adapter, client>>
  /\ UNCHANGED catalog
  /\ UNCHANGED chunked
  /\ UNCHANGED quoted
  /\ UNCHANGED tradingview
  /\ UNCHANGED symsvc
  /\ UNCHANGED indexsvc
  /\ UNCHANGED news
  /\ tracked_by' = TrackedBy("prices", symbols, run)

\* A lookup that waits for the update lock before it reads the store
SymbolPricesLookupUnderLock(run) ==
  /\ reader.pc = "p_lookup"
  /\ update_lock = "free"
  /\ \E failed \in Failures(Range(reader.symbols), run.faulty) :
       LET cached == Cached(SYMBOL_PRICE_PREFIX, reader.symbols, failed)
           to_fetch == Misses(SYMBOL_PRICE_PREFIX, reader.symbols, failed)
       IN IF to_fetch = <<>>
          THEN /\ rres' = [Result("prices", TRUE, "", cached, 0, DOMAIN cached, FALSE,
                                  failed # {}) EXCEPT !.get_failed = failed]
               /\ reader' = IdleReader
          ELSE /\ reader' = [reader EXCEPT !.pc = "p_fetch", !.cached = cached,
                                           !.to_fetch = to_fetch,
                                           !.expired = Expired(SYMBOL_PRICE_PREFIX, to_fetch, run),
                                           !.store_failed = (failed # {}),
                                           !.get_failed = failed]
               /\ UNCHANGED rres
  /\ UNCHANGED <<now, store, accessed, update_lock, sweeper, sres, started, adapter, client>>
  /\ UNCHANGED catalog
  /\ UNCHANGED chunked
  /\ UNCHANGED quoted
  /\ UNCHANGED tradingview
  /\ UNCHANGED symsvc
  /\ UNCHANGED indexsvc
  /\ UNCHANGED news
  /\ UNCHANGED tracked_by

\* get_symbol_prices: "Check cache for each symbol"
SymbolPricesLookup(run) ==
  /\ reader.pc = "p_lookup"
  /\ \E failed \in Failures(Range(reader.symbols), run.faulty) :
       LET cached == Cached(SYMBOL_PRICE_PREFIX, reader.symbols, failed)
           to_fetch == Misses(SYMBOL_PRICE_PREFIX, reader.symbols, failed)
       IN IF to_fetch = <<>>
          THEN /\ rres' = [Result("prices", TRUE, "", cached, 0, DOMAIN cached, FALSE,
                                  failed # {}) EXCEPT !.get_failed = failed]
               /\ reader' = IdleReader
          ELSE /\ reader' = [reader EXCEPT !.pc = "p_fetch", !.cached = cached,
                                           !.to_fetch = to_fetch,
                                           !.expired = Expired(SYMBOL_PRICE_PREFIX, to_fetch, run),
                                           !.store_failed = (failed # {}),
                                           !.get_failed = failed]
               /\ UNCHANGED rres
  /\ UNCHANGED <<now, store, accessed, update_lock, sweeper, sres, started, adapter, client>>
  /\ UNCHANGED catalog
  /\ UNCHANGED chunked
  /\ UNCHANGED quoted
  /\ UNCHANGED tradingview
  /\ UNCHANGED symsvc
  /\ UNCHANGED indexsvc
  /\ UNCHANGED news
  /\ UNCHANGED tracked_by

\* The upstream answered every symbol of the chunk with an error, on the
\* real-time and on the end-of-day endpoint
AllFailed(chunk, up) ==
  \A s \in Range(chunk) :
    up[clean_symbol(s)].iex = "err" /\ up[clean_symbol(s)].eod = "err"

\* get_symbol_prices: "Fetch missing symbols from the provider"
SymbolPricesFetch(run) ==
  /\ reader.pc = "p_fetch"
  /\ \E up \in Upstreams(reader.to_fetch, run.uniform) :
       LET fresh == fetch_market_data(reader.to_fetch, up, now)
       IN IF fresh.ok
          THEN \E failed \in Failures(1..Len(fresh.prices), run.faulty) :
               /\ store' = SetAll(store, SYMBOL_PRICE_PREFIX, fresh.prices, failed, 0)
               /\ rres' = [Result("prices", TRUE, "", InsertAll(reader.cached, fresh.prices),
                                  1, DOMAIN reader.cached, AllFailed(reader.to_fetch, up),
                                  reader.store_failed \/ failed # {})
                            EXCEPT !.set_failed = { fresh.prices[i].symbol : i \in failed },
                                   !.asked = reader.to_fetch]
          ELSE /\ rres' = [Result("prices", FALSE, "ExternalServiceError", EmptyMap, 1,
                                  DOMAIN reader.cached, TRUE, reader.store_failed)
                            EXCEPT !.asked = reader.to_fetch]
               /\ UNCHANGED store
  /\ reader' = IdleReader
  /\ Recorded(run)
  /\ UNCHANGED <<now, accessed, update_lock, sweeper, sres, started, adapter>>
  /\ UNCHANGED catalog
  /\ UNCHANGED chunked
  /\ UNCHANGED quoted
  /\ UNCHANGED tradingview
  /\ UNCHANGED symsvc
  /\ UNCHANGED indexsvc
  /\ UNCHANGED news
  /\ UNCHANGED tracked_by

\* get_market_indices, up to and including track_accessed_symbols
GetMarketIndices(indices, run) ==
  /\ reader.pc = "idle"
  /\ started < run.calls
  /\ started' = started + 1
  /\ IF indices = <<>>
     THEN /\ rres' = [NoResult EXCEPT !.kind = "indices", !.quiet = TRUE]
          /\ UNCHANGED <<reader, accessed>>
     ELSE \E zadds \in Successes(0, Len(indices), run.faulty) :
          /\ accessed' = Track(indices, zadds)
          /\ IF TrackOk(indices, zadds)
             THEN /\ reader' = [IdleReader EXCEPT
                                  !.pc = "i_lookup", !.symbols = indices,
                                  !.again = Again("indices", indices),
                                  !.prev = IF Again("indices", indices) THEN rres.prices
                                           ELSE EmptyMap]
                  /\ rres' = NoResult
             ELSE ReadAfterTrackError("indices", indices)
  /\ UNCHANGED <<now, store, update_lock, sweeper, sres, adapter, client>>
  /\ UNCHANGED catalog
  /\ UNCHANGED chunked
  /\ UNCHANGED quoted
  /\ UNCHANGED tradingview
  /\ UNCHANGED symsvc
  /\ UNCHANGED indexsvc
  /\ UNCHANGED news
  /\ tracked_by' = TrackedBy("indices", indices, run)

\* get_market_indices: "Check cache for each index"
MarketIndicesLookup(run) ==
  /\ reader.pc = "i_lookup"
  /\ \E failed \in Failures(Range(reader.symbols), run.faulty) :
       LET cached == Cached(MARKET_INDEX_PREFIX, reader.symbols, failed)
           to_fetch == Misses(MARKET_INDEX_PREFIX, reader.symbols, failed)
       IN IF to_fetch = <<>>
          THEN /\ rres' = [Result("indices", TRUE, "", cached, 0, DOMAIN cached, FALSE,
                                  failed # {}) EXCEPT !.get_failed = failed]
               /\ reader' = IdleReader
          ELSE /\ reader' = [reader EXCEPT !.pc = "i_fetch", !.cached = cached,
                                           !.to_fetch = to_fetch,
                                           !.expired = Expired(MARKET_INDEX_PREFIX, to_fetch, run),
                                           !.store_failed = (failed # {}),
                                           !.get_failed = failed]
               /\ UNCHANGED rres
  /\ UNCHANGED <<now, store, accessed, update_lock, sweeper, sres, started, adapter, client>>
  /\ UNCHANGED catalog
  /\ UNCHANGED chunked
  /\ UNCHANGED quoted
  /\ UNCHANGED tradingview
  /\ UNCHANGED symsvc
  /\ UNCHANGED indexsvc
  /\ UNCHANGED news
  /\ UNCHANGED tracked_by

\* get_market_indices: "Fetch missing indices from the provider"
MarketIndicesFetch(run) ==
  /\ reader.pc = "i_fetch"
  /\ LET fresh == fetch_market_indices(reader.to_fetch)
     IN IF fresh.ok
        THEN \E failed \in Failures(1..Len(fresh.indices), run.faulty) :
             /\ store' = SetAll(store, MARKET_INDEX_PREFIX, fresh.indices, failed, 0)
             /\ rres' = Result("indices", TRUE, "", InsertAll(reader.cached, fresh.indices),
                               1, DOMAIN reader.cached, FALSE,
                               reader.store_failed \/ failed # {})
        ELSE /\ rres' = Result("indices", FALSE, "ExternalServiceError", EmptyMap, 1,
                               DOMAIN reader.cached, TRUE, reader.store_failed)
             /\ UNCHANGED store
  /\ reader' = IdleReader
  /\ Recorded(run)
  /\ UNCHANGED <<now, accessed, update_lock, sweeper, sres, started, adapter>>
  /\ UNCHANGED catalog
  /\ UNCHANGED chunked
  /\ UNCHANGED quoted
  /\ UNCHANGED tradingview
  /\ UNCHANGED symsvc
  /\ UNCHANGED indexsvc
  /\ UNCHANGED news
  /\ UNCHANGED tracked_by

\* ------------------------------------------------------------------------
\* Sweep path
\* ------------------------------------------------------------------------
Sweepers == {"timer", "manual"}

IdleSweeper ==
  [pc |-> "idle", symbols |-> <<>>, indices |-> <<>>, next |-> 1, stale |-> <<>>,
   waited |-> FALSE, batches |-> 0, failed |-> 0, fresh |-> <<>>, outcomes |-> <<>>,
   store_failed |-> FALSE, set_failed |-> {}, writes_failed |-> FALSE,
   owed |-> {}, began |-> 0]

NoSweep ==
  [status |-> "none", all_failed |-> FALSE, store_failed |-> FALSE, writes_failed |-> FALSE]

\* A sweep that reports the failure of all its batches to the caller
SweepStatusOfBatches(ctx) ==
  IF ctx.batches > 0 /\ ctx.failed = ctx.batches THEN "Err" ELSE "Ok"

\* What a sweep that ran to its end returns: Ok(())
SweepStatus(ctx) == "Ok"

\* A return that keeps the lock guard
ReturnKeepLock(p, ctx, status) ==
  /\ sres' = [status |-> status,
              all_failed |-> (ctx.batches > 0 /\ ctx.failed = ctx.batches),
              store_failed |-> ctx.store_failed,
              writes_failed |-> ctx.writes_failed]
  /\ sweeper' = [sweeper EXCEPT ![p] = IdleSweeper]
  /\ UNCHANGED update_lock

\* The sweep of task p returns `status`: the lock guard is dropped
Return(p, ctx, status) ==
  /\ sres' = [status |-> status,
              all_failed |-> (ctx.batches > 0 /\ ctx.failed = ctx.batches),
              store_failed |-> ctx.store_failed,
              writes_failed |-> ctx.writes_failed]
  /\ sweeper' = [sweeper EXCEPT ![p] = IdleSweeper]
  /\ update_lock' = "free"

\* Time has passed or entries were pruned: a call made from now on no longer
\* directly follows the calls made before
Unquiet ==
  /\ rres' = [rres EXCEPT !.quiet = FALSE]
  /\ reader' = [reader EXCEPT !.again = FALSE, !.prev = EmptyMap]

\* A sweep that does not wait for the lock
LockIgnored == TRUE

\* self.update_lock.lock().await completes only while nobody holds the lock
LockFree == update_lock = "free"

\* update_all_cached_data is called by task p: the lock is taken at once when
\* it is free, and awaited otherwise
UpdateAllCachedData(p, run) ==
  /\ sweeper[p].pc = "idle"
  /\ started < run.calls
  /\ started' = started + 1
  /\ IF LockFree
     THEN /\ update_lock' = p
          /\ sweeper' = [sweeper EXCEPT ![p] = [IdleSweeper EXCEPT !.pc = "due"]]
     ELSE /\ sweeper' = [sweeper EXCEPT ![p] = [IdleSweeper EXCEPT !.pc = "waiting",
                                                                   !.waited = TRUE]]
          /\ UNCHANGED update_lock
  /\ UNCHANGED rres
  /\ UNCHANGED <<now, store, accessed, reader, sres, adapter, client>>
  /\ UNCHANGED catalog
  /\ UNCHANGED chunked
  /\ UNCHANGED quoted
  /\ UNCHANGED tradingview
  /\ UNCHANGED symsvc
  /\ UNCHANGED indexsvc
  /\ UNCHANGED news
  /\ UNCHANGED tracked_by

\* The awaited lock is granted to the waiting task p
AcquireLock(p) ==
  /\ sweeper[p].pc = "waiting"
  /\ LockFree
  /\ update_lock' = p
  /\ sweeper' = [sweeper EXCEPT ![p].pc = "due"]
  /\ UNCHANGED rres
  /\ UNCHANGED <<now, store, accessed, reader, sres, started, adapter, client>>
  /\ UNCHANGED catalog
  /\ UNCHANGED chunked
  /\ UNCHANGED quoted
  /\ UNCHANGED tradingview
  /\ UNCHANGED symsvc
  /\ UNCHANGED indexsvc
  /\ UNCHANGED news
  /\ UNCHANGED tracked_by

\* t sorts before u in the sorted set: by score, then by member bytes
ZLess(acc, t, u) ==
  Score(acc, t) < Score(acc, u) \/ (Score(acc, t) = Score(acc, u) /\ LexLess(t, u))

RECURSIVE ZOrder(_, _)
ZOrder(acc, members) ==
  IF members = {} THEN <<>>
  ELSE LET m == CHOOSE t \in members : \A u \in members \ {t} : ZLess(acc, t, u)
       IN <<m>> \o ZOrder(acc, members \ {m})

\* ZRANGE market_data:accessed_symbols 0 -1
ZRange(acc) == ZOrder(acc, Members(acc))

\* ZRANGEBYSCORE market_data:accessed_symbols 0 <max>
ZRangeByScore(acc, max) ==
  ZOrder(acc, { m \in Members(acc) : Score(acc, m) >= 0 /\ Score(acc, m) <= max })

\* get_symbols_to_update / get_indices_to_update: the tracked members whose
\* key under `prefix` has TTL -2 or TTL <= 10
ToUpdate(prefix) ==
  SelectSeq(ZRange(accessed),
            LAMBDA s : LET ttl == RedisTtl(store, Key(prefix, s), now)
                       IN ttl = -2 \/ ttl <= DueTtl)

Min(a, b) == IF a < b THEN a ELSE b

\* slice.chunks(size): the chunk that starts at position next
Chunk(list, next, size) == SubSeq(list, next, Min(next + size - 1, Len(list)))

\* A sweep that leaves the batch loops at the first failed batch
AfterBatchBreak(ctx) ==
  IF ctx.failed > 0 THEN [ctx EXCEPT !.pc = "prune", !.next = 1]
  ELSE IF ctx.pc = "symbols" /\ ctx.next <= Len(ctx.symbols) THEN ctx
  ELSE IF ctx.pc = "symbols" THEN
         [ctx EXCEPT !.pc = IF ctx.indices = <<>> THEN "prune" ELSE "indices", !.next = 1]
  ELSE IF ctx.next <= Len(ctx.indices) THEN ctx
  ELSE [ctx EXCEPT !.pc = "prune", !.next = 1]

\* Where the sweep stands once the chunk before position ctx.next is done
AfterBatch(ctx) ==
  IF ctx.pc = "symbols" /\ ctx.next <= Len(ctx.symbols) THEN ctx
  ELSE IF ctx.pc = "symbols" THEN
         [ctx EXCEPT !.pc = IF ctx.indices = <<>> THEN "prune" ELSE "indices", !.next = 1]
  ELSE IF ctx.next <= Len(ctx.indices) THEN ctx
  ELSE [ctx EXCEPT !.pc = "prune", !.next = 1]

\* Of the symbols, those whose latest access is within the stale threshold
NotStale(symbols) ==
  { x \in symbols : Score(accessed, x) > now - stale_threshold }

\* In a run that keeps them: the due symbols that are not stale
Owed(run) ==
  IF run.owing THEN NotStale(Range(ToUpdate(SYMBOL_PRICE_PREFIX))) ELSE {}

\* update_all_cached_data: "Get symbols and indices to update"; a store error
\* in either returns it to the caller
DueSets(p, run) ==
  /\ sweeper[p].pc = "due"
  /\ \E ok \in Oks(run.faulty) :
       IF ok
       THEN /\ sweeper' = [sweeper EXCEPT ![p] =
                  AfterBatch([sweeper[p] EXCEPT !.pc = "symbols",
                                                !.symbols = ToUpdate(SYMBOL_PRICE_PREFIX),
                                                !.indices = ToUpdate(MARKET_INDEX_PREFIX),
                                                !.owed = Owed(run),
                                                !.began = IF run.owing THEN now ELSE 0])]
            /\ UNCHANGED <<update_lock, sres>>
       ELSE Return(p, [sweeper[p] EXCEPT !.store_failed = TRUE], "Err")
  /\ UNCHANGED rres
  /\ UNCHANGED <<now, store, accessed, reader, started, adapter, client>>
  /\ UNCHANGED catalog
  /\ UNCHANGED chunked
  /\ UNCHANGED quoted
  /\ UNCHANGED tradingview
  /\ UNCHANGED symsvc
  /\ UNCHANGED indexsvc
  /\ UNCHANGED news
  /\ UNCHANGED tracked_by

\* update_all_cached_data: one chunk of "Update symbols in batches of 20"
SymbolBatch(p, run) ==
  /\ sweeper[p].pc = "symbols"
  /\ LET ctx == sweeper[p]
         chunk == Chunk(ctx.symbols, ctx.next, SymbolChunk)
     IN \E up \in Upstreams(chunk, run.uniform) :
          LET fresh == fetch_market_data(chunk, up, now)
          IN \E failed \in Failures(1..(IF fresh.ok THEN Len(fresh.prices) ELSE 0), run.faulty) :
               /\ store' = IF fresh.ok
                           THEN SetAll(store, SYMBOL_PRICE_PREFIX, fresh.prices, failed, 0)
                           ELSE store
               /\ sweeper' = [sweeper EXCEPT ![p] = AfterBatch(
                    [ctx EXCEPT !.next = ctx.next + SymbolChunk,
                                !.batches = ctx.batches + 1,
                                !.failed = ctx.failed + (IF AllFailed(chunk, up) THEN 1 ELSE 0),
                                !.fresh = (IF fresh.ok THEN fresh.prices ELSE <<>>),
                                !.outcomes = [i \in 1..Len(chunk) |-> Outcome(chunk[i], up)],
                                !.store_failed = (ctx.store_failed \/ failed # {}),
                                !.set_failed = { fresh.prices[i].symbol : i \in failed },
                                !.writes_failed = (ctx.writes_failed \/ failed # {}),
                                !.owed = ctx.owed \ { x \in Range(chunk) :
                                                        Outcome(x, up) # "some" }])]
  /\ UNCHANGED rres
  /\ Recorded(run)
  /\ UNCHANGED <<now, accessed, update_lock, reader, sres, started, adapter>>
  /\ UNCHANGED catalog
  /\ UNCHANGED chunked
  /\ UNCHANGED quoted
  /\ UNCHANGED tradingview
  /\ UNCHANGED symsvc
  /\ UNCHANGED indexsvc
  /\ UNCHANGED news
  /\ UNCHANGED tracked_by

\* update_all_cached_data: one chunk of "Update indices in batches of 10"
IndexBatch(p, run) ==
  /\ sweeper[p].pc = "indices"
  /\ LET ctx == sweeper[p]
         chunk == Chunk(ctx.indices, ctx.next, IndexChunk)
         fresh == fetch_market_indices(chunk)
     IN \E failed \in Failures(1..(IF fresh.ok THEN Len(fresh.indices) ELSE 0), run.faulty) :
          /\ store' = IF fresh.ok
                      THEN SetAll(store, MARKET_INDEX_PREFIX, fresh.indices, failed, 0)
                      ELSE store
          /\ sweeper' = [sweeper EXCEPT ![p] = AfterBatch(
               [ctx EXCEPT !.next = ctx.next + IndexChunk,
                           !.fresh = <<>>, !.outcomes = <<>>, !.set_failed = {},
                           !.store_failed = (ctx.store_failed \/ failed # {})])]
  /\ UNCHANGED rres
  /\ Recorded(run)
  /\ UNCHANGED <<now, accessed, update_lock, reader, sres, started, adapter>>
  /\ UNCHANGED catalog
  /\ UNCHANGED chunked
  /\ UNCHANGED quoted
  /\ UNCHANGED tradingview
  /\ UNCHANGED symsvc
  /\ UNCHANGED indexsvc
  /\ UNCHANGED news
  /\ UNCHANGED tracked_by

\* remove_stale_symbols up to the ZRANGEBYSCORE; its error is logged by
\* update_all_cached_data, which then returns Ok(())
RemoveStaleScan(p, run) ==
  /\ sweeper[p].pc = "prune"
  /\ LET ctx == sweeper[p]
         stale_timestamp == now - stale_threshold
         stale_symbols == ZRangeByScore(accessed, stale_timestamp)
     IN \E ok \in Oks(run.faulty) :
          IF ~ok
          THEN Return(p, [ctx EXCEPT !.store_failed = TRUE], SweepStatus(ctx))
          ELSE IF stale_symbols = <<>>
          THEN Return(p, ctx, SweepStatus(ctx))
          ELSE /\ sweeper' = [sweeper EXCEPT ![p] = [ctx EXCEPT !.pc = "remove",
                                                                  !.fresh = <<>>,
                                                                  !.outcomes = <<>>,
                                                                  !.set_failed = {},
                                                                  !.stale = stale_symbols]]
               /\ UNCHANGED <<update_lock, sres>>
  /\ UNCHANGED rres
  /\ UNCHANGED <<now, store, accessed, reader, started, adapter, client>>
  /\ UNCHANGED catalog
  /\ UNCHANGED chunked
  /\ UNCHANGED quoted
  /\ UNCHANGED tradingview
  /\ UNCHANGED symsvc
  /\ UNCHANGED indexsvc
  /\ UNCHANGED news
  /\ UNCHANGED tracked_by

\* The keys deleted by the first dels DELs of the loop over stale_symbols
Deleted(stale, dels) ==
  { Key(SYMBOL_PRICE_PREFIX, stale[i]) : i \in { j \in 1..Len(stale) : 2 * j - 1 <= dels } }
    \cup { Key(MARKET_INDEX_PREFIX, stale[i]) : i \in { j \in 1..Len(stale) : 2 * j <= dels } }

\* remove_stale_symbols from the ZREM on: dels = -1 when the ZREM fails,
\* otherwise the number of DELs that succeed before the first failure
RemoveStale(p, run) ==
  /\ sweeper[p].pc = "remove"
  /\ LET ctx == sweeper[p]
         all == 2 * Len(ctx.stale)
     IN \E dels \in Successes(-1, all, run.faulty) :
          /\ accessed' = IF dels >= 0 THEN Zrem(accessed, Range(ctx.stale)) ELSE accessed
          /\ store' = RedisDel(store, Deleted(ctx.stale, dels))
          /\ Return(p, [ctx EXCEPT !.store_failed = (ctx.store_failed \/ dels < all)],
                    SweepStatus(ctx))
  /\ Unquiet
  /\ UNCHANGED <<now, started, adapter, client>>
  /\ UNCHANGED catalog
  /\ UNCHANGED chunked
  /\ UNCHANGED quoted
  /\ UNCHANGED tradingview
  /\ UNCHANGED symsvc
  /\ UNCHANGED indexsvc
  /\ UNCHANGED news
  /\ UNCHANGED tracked_by

\* ------------------------------------------------------------------------
\* A client of the price store
\* ------------------------------------------------------------------------
\* The keys the client writes and reads: the keys of the read path
ClientKeys == { Key(SYMBOL_PRICE_PREFIX, SymAUS), Key(SYMBOL_PRICE_PREFIX, SymBUS) }

\* The index keys another writer of the store sets
IndexKeys == { Key(MARKET_INDEX_PREFIX, SymAUS) }

NoGet == [key |-> <<>>, some |-> FALSE, at |-> 0, done |-> FALSE]
NoClient == [history |-> EmptyMap, got |-> NoGet]

\* RedisManager::set(key, record, Some(cache_duration)) by the client
StoreSet(key) ==
  /\ store' = RedisSet(store, key, SymbolPrice(key[2], Quote(now), BasePrice),
                       cache_duration, now)
  /\ client' = [client EXCEPT !.history = WriteHistory(client.history, store, store', now)]
  /\ UNCHANGED <<now, accessed, update_lock, reader, rres, sweeper, sres, started, adapter>>
  /\ UNCHANGED catalog
  /\ UNCHANGED chunked
  /\ UNCHANGED quoted
  /\ UNCHANGED tradingview
  /\ UNCHANGED symsvc
  /\ UNCHANGED indexsvc
  /\ UNCHANGED news
  /\ UNCHANGED tracked_by

\* RedisManager::get(key) by the client
StoreGet(key) ==
  /\ client' = [client EXCEPT !.got = [key |-> key, some |-> RedisGet(store, key).some,
                                       at |-> now, done |-> TRUE]]
  /\ UNCHANGED <<now, store, accessed, update_lock, reader, rres, sweeper, sres, started,
                 adapter>>
  /\ UNCHANGED catalog
  /\ UNCHANGED chunked
  /\ UNCHANGED quoted
  /\ UNCHANGED tradingview
  /\ UNCHANGED symsvc
  /\ UNCHANGED indexsvc
  /\ UNCHANGED news
  /\ UNCHANGED tracked_by

\* ------------------------------------------------------------------------
\* The adapter on its own
\* ------------------------------------------------------------------------
NoCall ==
  [called |-> FALSE, symbols |-> <<>>, up |-> EmptyMap, at |-> 0,
   result |-> [ok |-> TRUE, prices |-> <<>>], queries |-> <<>>]

\* TiingoClient::fetch_market_data is called once, at any time, with symbols
\* while the upstream answers up
FetchMarketData(symbols) ==
  /\ ~adapter.called
  /\ \E up \in AllUpstreams(symbols) :
       adapter' = [called |-> TRUE, symbols |-> symbols, up |-> up, at |-> now,
                   result |-> fetch_market_data(symbols, up, now),
                   queries |-> [i \in 1..Len(symbols) |-> Queries(symbols[i], up)]]
  /\ UNCHANGED <<now, store, accessed, update_lock, reader, rres, sweeper, sres, started, client>>
  /\ UNCHANGED catalog
  /\ UNCHANGED chunked
  /\ UNCHANGED quoted
  /\ UNCHANGED tradingview
  /\ UNCHANGED symsvc
  /\ UNCHANGED indexsvc
  /\ UNCHANGED news
  /\ UNCHANGED tracked_by

\* ------------------------------------------------------------------------
\* Bulk symbol cache (SymbolCacheService over the symbols:* keys)
\* ------------------------------------------------------------------------
LowerLetters ==
  <<"a", "b", "c", "d", "e", "f", "g", "h", "i", "j", "k", "l", "m",
    "n", "o", "p", "q", "r", "s", "t", "u", "v", "w", "x", "y", "z">>

\* str::to_uppercase
to_uppercase(s) ==
  [i \in 1..Len(s) |->
     IF \E k \in 1..Len(LowerLetters) : LowerLetters[k] = s[i]
     THEN Letters[CHOOSE k \in 1..Len(LowerLetters) : LowerLetters[k] = s[i]]
     ELSE s[i]]

DigitChars == <<"0", "1", "2", "3", "4", "5", "6", "7", "8", "9">>

RECURSIVE ScoreString(_)
\* A sorted-set score as Redis replies it and Vec<String> receives it
ScoreString(n) ==
  IF n < 10 THEN <<DigitChars[n + 1]>>
  ELSE ScoreString(n \div 10) \o <<DigitChars[(n % 10) + 1]>>

RECURSIVE GlobMatch(_, _)
\* MATCH pattern of the Redis scan commands: * is any run of characters,
\* ? any one character, every other character itself
GlobMatch(pattern, s) ==
  IF pattern = <<>> THEN s = <<>>
  ELSE IF Head(pattern) = "*"
       THEN GlobMatch(Tail(pattern), s) \/ (s # <<>> /\ GlobMatch(pattern, Tail(s)))
  ELSE /\ s # <<>>
       /\ (Head(pattern) = "?" \/ Head(pattern) = Head(s))
       /\ GlobMatch(Tail(pattern), Tail(s))

\* Tickers of the symbol lists the Upstox instrument file may hold
Tickers == { <<"A">>, <<"A", "B">>, <<"A", "C">>, <<"B">> }
\* The lists fetch_nse_symbols may return: any tickers in any order
SymbolLists == UNION { [1..n -> Tickers] : n \in 0..MaxSymbols }
\* Ok(symbols) and Err of fetch_nse_symbols
Fetches ==
  { [ok |-> TRUE, symbols |-> l] : l \in SymbolLists } \cup { [ok |-> FALSE, symbols |-> <<>>] }

\* UpstoxSymbolsService::get_mock_nse_symbols
get_mock_nse_symbols ==
  <<<<"R", "E", "L", "I", "A", "N", "C", "E">>,
     <<"T", "C", "S">>,
     <<"H", "D", "F", "C", "B", "A", "N", "K">>,
     <<"I", "N", "F", "Y">>,
     <<"I", "C", "I", "C", "I", "B", "A", "N", "K">>,
     <<"H", "I", "N", "D", "U", "N", "I", "L", "V", "R">>,
     <<"S", "B", "I", "N">>,
     <<"B", "A", "J", "F", "I", "N", "A", "N", "C", "E">>,
     <<"B", "H", "A", "R", "T", "I", "A", "R", "T", "L">>,
     <<"K", "O", "T", "A", "K", "B", "A", "N", "K">>,
     <<"W", "I", "P", "R", "O">>,
     <<"A", "X", "I", "S", "B", "A", "N", "K">>,
     <<"M", "A", "R", "U", "T", "I">>,
     <<"T", "A", "T", "A", "M", "O", "T", "O", "R", "S">>,
     <<"S", "U", "N", "P", "H", "A", "R", "M", "A">>,
     <<"A", "S", "I", "A", "N", "P", "A", "I", "N", "T">>,
     <<"T", "A", "T", "A", "S", "T", "E", "E", "L">>,
     <<"A", "D", "A", "N", "I", "E", "N", "T">>,
     <<"A", "D", "A", "N", "I", "P", "O", "R", "T", "S">>,
     <<"N", "T", "P", "C">>,
     <<"P", "O", "W", "E", "R", "G", "R", "I", "D">>,
     <<"O", "N", "G", "C">>,
     <<"C", "O", "A", "L", "I", "N", "D", "I", "A">>,
     <<"G", "A", "I", "L">>,
     <<"B", "P", "C", "L">>,
     <<"I", "O", "C">>,
     <<"T", "E", "C", "H", "M">>,
     <<"H", "C", "L", "T", "E", "C", "H">>,
     <<"L", "T">>,
     <<"U", "L", "T", "R", "A", "C", "E", "M", "C", "O">>>>

\* Prefixes and limits a caller passes to search_symbols_by_prefix
Prefixes == { <<"A">>, <<"a">>, <<"A", "B">>, <<"B">>, <<"T">> }
Limits == 0..MaxLimit

\* The hash written under symbols:data:<ticker>
SymbolHash ==
  [exchange |-> "NSE", assetType |-> "STOCK", priceCurrency |-> "INR",
   startDate |-> "", endDate |-> ""]

\* The keys symbols:exchange:NSE, symbols:assetType:STOCK, symbols:currency:INR
FilterSets == { <<"exchange", "NSE">>, <<"assetType", "STOCK">>, <<"currency", "INR">> }

NoLoad == [done |-> FALSE, ok |-> FALSE, n |-> 0, input |-> <<>>, failed_at |-> "none"]
NoCount == [done |-> FALSE, value |-> 0, loaded |-> FALSE]
NoSearch == [done |-> FALSE, prefix |-> <<>>, limit |-> 0, results |-> <<>>, loaded |-> FALSE]

\* No symbols:* key exists and no call was made
NoCatalog ==
  [pc |-> "idle",
   all |-> {},            \* sorted set symbols:all: entries [member, score]
   data |-> EmptyMap,     \* hashes symbols:data:<ticker>
   sets |-> [k \in FilterSets |-> {}],
   last_updated |-> FALSE,\* whether symbols:last_updated exists
   refreshed |-> NoLoad,  \* what the last refresh_cache returned, and for which list
   counted |-> NoCount,   \* what the last get_symbol_count returned
   found |-> NoSearch,    \* what the last search_symbols_by_prefix returned
   loading |-> <<>>]      \* nse_symbols of the refresh_cache under way

\* A DEL that leaves the symbols:last_updated key in place
DelSymbolsKeepStamp(cat) ==
  [cat EXCEPT !.all = {}, !.data = EmptyMap, !.sets = [k \in FilterSets |-> {}]]

\* DEL of the keys KEYS symbols:* finds
DelSymbols(cat) ==
  [cat EXCEPT !.all = {}, !.data = EmptyMap, !.sets = [k \in FilterSets |-> {}],
              !.last_updated = FALSE]

\* Err(e) of refresh_cache, from the step named
RefreshError(step, input) ==
  [done |-> TRUE, ok |-> FALSE, n |-> 0, input |-> input, failed_at |-> step]

\* refresh_cache up to the call of load_upstox_symbols_into_redis:
\* KEYS symbols:* and DEL of the keys found
RefreshCache(run) ==
  /\ catalog.pc = "idle"
  /\ \E ok \in Oks(run.faulty) :
       catalog' = IF ok
                  THEN [DelSymbols(catalog) EXCEPT !.pc = "load", !.refreshed = NoLoad,
                                                   !.counted = NoCount, !.found = NoSearch]
                  ELSE [catalog EXCEPT !.refreshed = RefreshError("delete", <<>>),
                                       !.counted = NoCount, !.found = NoSearch]
  /\ UNCHANGED <<now, store, accessed, update_lock, reader, rres, sweeper, sres, started,
                 adapter, client>>
  /\ UNCHANGED chunked
  /\ UNCHANGED quoted
  /\ UNCHANGED tradingview
  /\ UNCHANGED symsvc
  /\ UNCHANGED indexsvc
  /\ UNCHANGED news
  /\ UNCHANGED tracked_by

RECURSIVE LoadAll(_, _, _)
\* The pipelined HSET / ZADD / SADD commands of the loop over nse_symbols
LoadAll(cat, symbols, counter) ==
  IF symbols = <<>> THEN cat
  ELSE LoadAll([cat EXCEPT !.data = Put(cat.data, Head(symbols), SymbolHash),
                           !.all = Zadd(cat.all, start_score + counter, Head(symbols)),
                           !.sets = [k \in FilterSets |-> cat.sets[k] \cup {Head(symbols)}]],
               Tail(symbols), counter + 1)

\* load_upstox_symbols_into_redis called by refresh_cache, up to the last
\* pipeline; `written` records are in Redis when a pipeline fails
LoadUpstoxSymbolsIntoRedis(fetched, run) ==
  /\ catalog.pc = "load"
  /\ LET nse_symbols == IF fetched.ok THEN fetched.symbols ELSE get_mock_nse_symbols
     IN IF nse_symbols = <<>>
        THEN catalog' = [catalog EXCEPT !.pc = "idle",
                                        !.refreshed = [done |-> TRUE, ok |-> TRUE, n |-> 0,
                                                       input |-> nse_symbols,
                                                       failed_at |-> "none"]]
        ELSE \E written \in Successes(0, Len(nse_symbols), run.faulty) :
               catalog' =
                 IF written < Len(nse_symbols)
                 THEN [LoadAll(catalog, SubSeq(nse_symbols, 1, written), 0)
                         EXCEPT !.pc = "idle", !.refreshed = RefreshError("load", nse_symbols)]
                 ELSE [LoadAll(catalog, nse_symbols, 0)
                         EXCEPT !.pc = "stamp", !.loading = nse_symbols]
  /\ UNCHANGED <<now, store, accessed, update_lock, reader, rres, sweeper, sres, started,
                 adapter, client>>
  /\ UNCHANGED chunked
  /\ UNCHANGED quoted
  /\ UNCHANGED tradingview
  /\ UNCHANGED symsvc
  /\ UNCHANGED indexsvc
  /\ UNCHANGED news
  /\ UNCHANGED tracked_by

\* The end of load_upstox_symbols_into_redis: SET symbols:last_updated and
\* its EXPIRE (cache_ttl_days > 0), then Ok(counter) returned by refresh_cache
SetLastUpdated(run) ==
  /\ catalog.pc = "stamp"
  /\ \E calls \in Successes(0, 2, run.faulty) :
       catalog' = [catalog EXCEPT
                     !.pc = "idle", !.loading = <<>>,
                     !.last_updated = (calls >= 1),
                     !.refreshed =
                        IF calls = 2
                        THEN [done |-> TRUE, ok |-> TRUE, n |-> Len(catalog.loading),
                              input |-> catalog.loading, failed_at |-> "none"]
                        ELSE RefreshError(IF calls = 0 THEN "set" ELSE "expire",
                                          catalog.loading)]
  /\ UNCHANGED <<now, store, accessed, update_lock, reader, rres, sweeper, sres, started,
                 adapter, client>>
  /\ UNCHANGED chunked
  /\ UNCHANGED quoted
  /\ UNCHANGED tradingview
  /\ UNCHANGED symsvc
  /\ UNCHANGED indexsvc
  /\ UNCHANGED news
  /\ UNCHANGED tracked_by

\* ZCARD symbols:all
get_symbol_count(cat) == Cardinality(Members(cat.all))

GetSymbolCount ==
  /\ catalog' = [catalog EXCEPT !.counted =
                   [done |-> TRUE, value |-> get_symbol_count(catalog),
                    loaded |-> (catalog.pc = "idle" /\ catalog.refreshed.ok)]]
  /\ UNCHANGED <<now, store, accessed, update_lock, reader, rres, sweeper, sres, started,
                 adapter, client>>
  /\ UNCHANGED chunked
  /\ UNCHANGED quoted
  /\ UNCHANGED tradingview
  /\ UNCHANGED symsvc
  /\ UNCHANGED indexsvc
  /\ UNCHANGED news
  /\ UNCHANGED tracked_by

RECURSIVE ZEntries(_)
\* The entries of the sorted set in the order a scan goes through them: by
\* score, then by member bytes
ZEntries(all) ==
  IF all = {} THEN <<>>
  ELSE LET e == CHOOSE e \in all :
                  \A f \in all \ {e} :
                    \/ e.score < f.score
                    \/ (e.score = f.score /\ LexLess(e.member, f.member))
       IN <<e>> \o ZEntries(all \ {e})

\* One ZSCAN symbols:all <cursor> MATCH <pattern> COUNT ScanCount: the
\* entries of the next ScanCount positions that match, each as its member
\* followed by its score, and the cursor to go on from (0 at the end)
ZScan(entries, cursor, pattern) ==
  LET page == SubSeq(entries, cursor + 1, Min(cursor + ScanCount, Len(entries)))
      hits == SelectSeq(page, LAMBDA e : GlobMatch(pattern, e.member))
  IN [cursor |-> IF cursor + ScanCount >= Len(entries) THEN 0 ELSE cursor + ScanCount,
      results |-> [i \in 1..(2 * Len(hits)) |->
                     IF i % 2 = 1 THEN hits[(i + 1) \div 2].member
                     ELSE ScoreString(hits[i \div 2].score)]]

RECURSIVE PushUntil(_, _, _)
\* for symbol in scan_results { matches.push(symbol); if len >= limit { break } }
PushUntil(matches, scan_results, limit) ==
  IF scan_results = <<>> THEN matches
  ELSE LET pushed == Append(matches, Head(scan_results))
       IN IF Len(pushed) >= limit THEN pushed
          ELSE PushUntil(pushed, Tail(scan_results), limit)

RECURSIVE ScanLoop(_, _, _, _, _)
\* The loop over the ZSCAN cursor
ScanLoop(entries, pattern, limit, cursor, matches) ==
  LET scan == ZScan(entries, cursor, pattern)
      pushed == PushUntil(matches, scan.results, limit)
  IN IF scan.cursor = 0 \/ Len(pushed) >= limit THEN pushed
     ELSE ScanLoop(entries, pattern, limit, scan.cursor, pushed)

\* get_symbol_details: Some(record) when symbols:data:<symbol> exists
get_symbol_details(cat, symbol) ==
  IF symbol \in DOMAIN cat.data
  THEN [some |-> TRUE,
        record |-> [ticker |-> symbol, exchange |-> cat.data[symbol].exchange,
                    asset_type |-> cat.data[symbol].assetType,
                    price_currency |-> cat.data[symbol].priceCurrency]]
  ELSE [some |-> FALSE,
        record |-> [ticker |-> <<>>, exchange |-> "", asset_type |-> "",
                    price_currency |-> ""]]

RECURSIVE Details(_, _)
\* "Get details for each matching symbol"
Details(cat, matches) ==
  IF matches = <<>> THEN <<>>
  ELSE LET details == get_symbol_details(cat, Head(matches))
       IN (IF details.some THEN <<details.record>> ELSE <<>>) \o Details(cat, Tail(matches))

search_symbols_by_prefix(cat, prefix, limit) ==
  LET pattern == to_uppercase(prefix) \o <<"*">>
      matches == ScanLoop(ZEntries(cat.all), pattern, limit, 0, <<>>)
  IN Details(cat, SubSeq(matches, 1, Min(limit, Len(matches))))

SearchSymbolsByPrefix(prefix, limit) ==
  /\ catalog' = [catalog EXCEPT !.found =
                   [done |-> TRUE, prefix |-> prefix, limit |-> limit,
                    results |-> search_symbols_by_prefix(catalog, prefix, limit),
                    loaded |-> (catalog.pc = "idle" /\ catalog.refreshed.ok)]]
  /\ UNCHANGED <<now, store, accessed, update_lock, reader, rres, sweeper, sres, started,
                 adapter, client>>
  /\ UNCHANGED chunked
  /\ UNCHANGED quoted
  /\ UNCHANGED tradingview
  /\ UNCHANGED symsvc
  /\ UNCHANGED indexsvc
  /\ UNCHANGED news
  /\ UNCHANGED tracked_by


\* A Redis call of the sweep of task p never responds: the await of the call
\* never completes, and nothing in update_all_cached_data or in the updater's
\* loop ends it (the adapter's HTTP client gives up after 10 s and answers
\* with an error instead)
StoreCallHangs(p) ==
  /\ sweeper[p].pc \in {"due", "symbols", "indices", "prune", "remove"}
  /\ sweeper' = [sweeper EXCEPT ![p].pc = "hung"]
  /\ UNCHANGED <<now, store, accessed, update_lock, reader, rres, sres, started, adapter,
                 client, catalog, chunked>>
  /\ UNCHANGED quoted
  /\ UNCHANGED tradingview
  /\ UNCHANGED symsvc
  /\ UNCHANGED indexsvc
  /\ UNCHANGED news
  /\ UNCHANGED tracked_by

\* ------------------------------------------------------------------------
\* Chunked symbol collection (SymbolService over the symbols_* keys)
\* ------------------------------------------------------------------------
\* The symbol lists of the collections saved
CollectionLists == UNION { [1..n -> { <<"A">>, <<"B">> }] : n \in 0..MaxCollection }

\* A chunk count taken by rounding down
ChunkCountFloor(count) == count \div CHUNK_SIZE

\* "Ceiling division"
ChunkCount(count) == (count + CHUNK_SIZE - 1) \div CHUNK_SIZE

\* slice.chunks(CHUNK_SIZE).enumerate(): chunk i, counted from 0
ChunkAt(list, i) == Chunk(list, i * CHUNK_SIZE + 1, CHUNK_SIZE)

\* How many chunks slice.chunks(CHUNK_SIZE) yields
Chunks(list) == (Len(list) + CHUNK_SIZE - 1) \div CHUNK_SIZE

NoSave == [pc |-> "idle", symbols |-> <<>>, timestamp |-> 0, next |-> 0]
NoSaved == [done |-> FALSE, symbols |-> <<>>, all_set |-> FALSE]
NoLoaded ==
  [done |-> FALSE, from |-> "none", symbols |-> <<>>, chunk_count |-> 0, total_count |-> 0,
   settled |-> FALSE]

\* No symbols_* key exists and no call was made
NoChunked ==
  [count |-> [some |-> FALSE, value |-> 0],       \* key symbols_count
   timestamp |-> [some |-> FALSE, value |-> 0],   \* key symbols_timestamp
   chunk_count |-> [some |-> FALSE, value |-> 0], \* key symbols_chunk_count
   chunk |-> EmptyMap,                            \* keys symbols_chunk_<i>
   save |-> NoSave,       \* the save_symbols_to_redis under way
   all_set |-> TRUE,      \* whether every set of the save under way succeeded
   saved |-> NoSaved,     \* the collection of the last save to return
   loaded |-> NoLoaded]   \* what the last initialize_cache loaded

Some(value) == [some |-> TRUE, value |-> value]

\* save_symbols_to_redis is called with a collection
SaveSymbolsToRedis(list) ==
  /\ chunked.save.pc = "idle"
  /\ chunked' = [chunked EXCEPT !.save = [pc |-> "count", symbols |-> list,
                                          timestamp |-> now, next |-> 0],
                                !.all_set = TRUE, !.saved = NoSaved, !.loaded = NoLoaded]
  /\ UNCHANGED <<now, store, accessed, update_lock, reader, rres, sweeper, sres, started,
                 adapter, client, catalog>>
  /\ UNCHANGED quoted
  /\ UNCHANGED tradingview
  /\ UNCHANGED symsvc
  /\ UNCHANGED indexsvc
  /\ UNCHANGED news
  /\ UNCHANGED tracked_by

\* "Store the total count"; an error of the set is logged
SaveCount(run) ==
  /\ chunked.save.pc = "count"
  /\ \E ok \in Oks(run.faulty) :
       chunked' = [chunked EXCEPT
                     !.count = IF ok THEN Some(Len(chunked.save.symbols)) ELSE @,
                     !.all_set = @ /\ ok,
                     !.save.pc = "timestamp"]
  /\ UNCHANGED <<now, store, accessed, update_lock, reader, rres, sweeper, sres, started,
                 adapter, client, catalog>>
  /\ UNCHANGED quoted
  /\ UNCHANGED tradingview
  /\ UNCHANGED symsvc
  /\ UNCHANGED indexsvc
  /\ UNCHANGED news
  /\ UNCHANGED tracked_by

\* "Store the timestamp"; an error of the set is logged
SaveTimestamp(run) ==
  /\ chunked.save.pc = "timestamp"
  /\ \E ok \in Oks(run.faulty) :
       chunked' = [chunked EXCEPT
                     !.timestamp = IF ok THEN Some(chunked.save.timestamp) ELSE @,
                     !.all_set = @ /\ ok,
                     !.save.pc = IF Chunks(chunked.save.symbols) > 0 THEN "chunks"
                                 ELSE "chunk_count"]
  /\ UNCHANGED <<now, store, accessed, update_lock, reader, rres, sweeper, sres, started,
                 adapter, client, catalog>>
  /\ UNCHANGED quoted
  /\ UNCHANGED tradingview
  /\ UNCHANGED symsvc
  /\ UNCHANGED indexsvc
  /\ UNCHANGED news
  /\ UNCHANGED tracked_by

\* One turn of the loop over chunks.enumerate(); an error of the set is logged
SaveChunk(run) ==
  /\ chunked.save.pc = "chunks"
  /\ LET i == chunked.save.next
     IN \E ok \in Oks(run.faulty) :
          chunked' = [chunked EXCEPT
                        !.chunk = IF ok THEN Put(@, i, ChunkAt(chunked.save.symbols, i))
                                  ELSE @,
                        !.all_set = @ /\ ok,
                        !.save.next = i + 1,
                        !.save.pc = IF i + 1 < Chunks(chunked.save.symbols) THEN "chunks"
                                    ELSE "chunk_count"]
  /\ UNCHANGED <<now, store, accessed, update_lock, reader, rres, sweeper, sres, started,
                 adapter, client, catalog>>
  /\ UNCHANGED quoted
  /\ UNCHANGED tradingview
  /\ UNCHANGED symsvc
  /\ UNCHANGED indexsvc
  /\ UNCHANGED news
  /\ UNCHANGED tracked_by

\* "Store the number of chunks", and Ok(()) returned
SaveChunkCount(run) ==
  /\ chunked.save.pc = "chunk_count"
  /\ \E ok \in Oks(run.faulty) :
       chunked' = [chunked EXCEPT
                     !.chunk_count = IF ok THEN Some(ChunkCount(Len(chunked.save.symbols)))
                                     ELSE @,
                     !.save = NoSave,
                     !.saved = [done |-> TRUE, symbols |-> chunked.save.symbols,
                                all_set |-> chunked.all_set /\ ok]]
  /\ UNCHANGED <<now, store, accessed, update_lock, reader, rres, sweeper, sres, started,
                 adapter, client, catalog>>
  /\ UNCHANGED quoted
  /\ UNCHANGED tradingview
  /\ UNCHANGED symsvc
  /\ UNCHANGED indexsvc
  /\ UNCHANGED news
  /\ UNCHANGED tracked_by

RECURSIVE LoadChunks(_, _, _)
\* "Load all chunks": chunks i..chunk_count-1, a missing chunk skipped
LoadChunks(chunk, i, chunk_count) ==
  IF i >= chunk_count THEN <<>>
  ELSE (IF i \in DOMAIN chunk THEN chunk[i] ELSE <<>>) \o LoadChunks(chunk, i + 1, chunk_count)

\* initialize_cache up to the collection it takes from the chunks; with no
\* chunk count, no count or no symbol in the chunks it goes on to the legacy
\* key and to Upstox
InitializeCache ==
  /\ LET all_symbols == LoadChunks(chunked.chunk, 0, chunked.chunk_count.value)
         from == IF chunked.chunk_count.some /\ chunked.count.some /\ all_symbols # <<>>
                 THEN "chunks" ELSE "fallback"
     IN chunked' = [chunked EXCEPT !.loaded =
                      [done |-> TRUE, from |-> from,
                       symbols |-> IF chunked.chunk_count.some /\ chunked.count.some
                                   THEN all_symbols ELSE <<>>,
                       chunk_count |-> chunked.chunk_count.value,
                       total_count |-> chunked.count.value,
                       settled |-> (chunked.save.pc = "idle" /\ chunked.saved.done)]]
  /\ UNCHANGED <<now, store, accessed, update_lock, reader, rres, sweeper, sres, started,
                 adapter, client, catalog>>
  /\ UNCHANGED quoted
  /\ UNCHANGED tradingview
  /\ UNCHANGED symsvc
  /\ UNCHANGED indexsvc
  /\ UNCHANGED news
  /\ UNCHANGED tracked_by

\* ------------------------------------------------------------------------
\* Price records made of upstream quotes (TiingoClient, UpstoxClient)
\* ------------------------------------------------------------------------
\* The prices an upstream quotes, and a previous close it may leave out
Prices == 0..MaxPrice
PrevCloses == { [some |-> FALSE, value |-> 0] } \cup { Some(v) : v \in Prices }

\* The upstream answers a price record is made of
Sources == { "iex", "eod", "prev_eod", "ltp", "ohlc" }

\* A percentage that is a number; f64 division by zero gives an infinity,
\* and NaN for 0.0 / 0.0
Finite(record) == [record EXCEPT !.percent_is = "finite"]

\* fetch_iex_data: prev_close is data.prevClose, or last_price without it
IexPrice(symbol, last_price, prevClose) ==
  SymbolPrice(symbol, last_price, IF prevClose.some THEN prevClose.value ELSE last_price)

\* fetch_eod_data: prev_close is what fetch_previous_close found, or data.close
EodPrice(symbol, close, previous) ==
  SymbolPrice(symbol, close, IF previous.some THEN previous.value ELSE close)

\* fetch_previous_eod_data: "No change data available for previous day"
PreviousEodPrice(symbol, close) ==
  [symbol |-> symbol, price |-> close, change |-> 0, percent_change |-> 0]

\* UpstoxClient::fetch_symbol_price on LTP data: "LTP doesn't provide change"
LtpPrice(symbol, last_price) ==
  [symbol |-> symbol, price |-> last_price, change |-> 0, percent_change |-> 0]

\* UpstoxClient::fetch_symbol_price on OHLC data:
\* ((last_price - close) / close) * 100.0, whatever close is
OhlcPrice(symbol, last_price, close) ==
  [symbol |-> symbol, price |-> last_price, change |-> last_price - close,
   percent_change |-> IF close # 0 THEN ((last_price - close) * 100) \div close ELSE 0,
   percent_is |-> IF close # 0 THEN "finite"
                  ELSE IF last_price - close = 0 THEN "nan" ELSE "inf"]

\* The record the adapter makes of a quote from the source
PriceRecord(source, symbol, price, previous) ==
  CASE source = "iex" -> Finite(IexPrice(symbol, price, previous) @@ [percent_is |-> ""])
    [] source = "eod" -> Finite(EodPrice(symbol, price, previous) @@ [percent_is |-> ""])
    [] source = "prev_eod" -> Finite(PreviousEodPrice(symbol, price) @@ [percent_is |-> ""])
    [] source = "ltp" -> Finite(LtpPrice(symbol, price) @@ [percent_is |-> ""])
    [] source = "ohlc" -> OhlcPrice(symbol, price, previous.value)

NoQuote ==
  [done |-> FALSE, source |-> "none", price |-> 0, previous |-> [some |-> FALSE, value |-> 0],
   record |-> Finite(SymbolPrice(<<>>, 0, 0) @@ [percent_is |-> ""])]

\* An adapter makes a price record of a quote
ProducePrice(source, price, previous) ==
  /\ source \in {"prev_eod", "ltp"} => ~previous.some
  /\ source = "ohlc" => previous.some
  /\ quoted' = [done |-> TRUE, source |-> source, price |-> price, previous |-> previous,
                record |-> PriceRecord(source, SymA, price, previous)]
  /\ UNCHANGED <<now, store, accessed, update_lock, reader, rres, sweeper, sres, started,
                 adapter, client, catalog, chunked, tradingview, symsvc, indexsvc, news, tracked_by>>

INDICES_KEY == "indices:tradingview:latest"

\* How many indices a stored collection holds at most
MaxIndices == 2
\* How many symbols one request for indices names at most
MaxIndexRequest == 2
\* Index prices run from 1 to MaxIndexPrice
MaxIndexPrice == 2

IndexSymbols == {"SPX", "DJI", "NDX"}

\* IndexData, the fields the conversion reads
IndexDatas ==
  { [symbol |-> x, price |-> p, change_absolute |-> p - 1, change_percentage |-> 10 * (p - 1)] :
      x \in IndexSymbols, p \in 1..MaxIndexPrice }

\* IndicesCollection.indices as the extractor writes it: one entry per index
IndicesCollections ==
  { c \in UNION { [1..n -> IndexDatas] : n \in 0..MaxIndices } :
      \A i, j \in 1..Len(c) : c[i].symbol = c[j].symbol => i = j }

\* What GET INDICES_KEY can give: nothing, a string that does not
\* deserialize, or a serialized collection
StoredIndices ==
  {[kind |-> "none", indices |-> <<>>], [kind |-> "corrupt", indices |-> <<>>]}
    \cup { [kind |-> "collection", indices |-> c] : c \in IndicesCollections }

IndexRequests == UNION { [1..n -> IndexSymbols] : n \in 0..MaxIndexRequest }

NoIndices ==
  [done |-> FALSE, kind |-> "none", prices |-> EmptyMap, symbols |-> <<>>,
   got |-> [kind |-> "none", indices |-> <<>>]]
NoTradingView == [stored |-> [kind |-> "none", indices |-> <<>>], result |-> NoIndices]

\* IndicesMarketDataService::convert_to_symbol_price
convert_to_symbol_price(index) ==
  [symbol |-> index.symbol, price |-> index.price, change |-> index.change_absolute,
   percent_change |-> index.change_percentage, volume |-> 0]

\* A filter that forgets the request
FilterNothing(indices, symbols) == indices

\* The filter of get_symbol_prices: everything for an empty request, else
\* the indices whose symbol is in the request
filtered_indices(indices, symbols) ==
  IF symbols = <<>> THEN indices
  ELSE SelectSeq(indices, LAMBDA index : index.symbol \in Range(symbols))

\* The prices map: inserted in order, a later entry replaces an earlier one
\* of the same symbol
IndexPriceMap(indices) ==
  [x \in { indices[i].symbol : i \in 1..Len(indices) } |->
     convert_to_symbol_price(
       indices[CHOOSE i \in 1..Len(indices) :
                 /\ indices[i].symbol = x
                 /\ \A j \in 1..Len(indices) : indices[j].symbol = x => j <= i])]

\* IndicesMarketDataService::get_symbol_prices, its answer to what the
\* connection and the GET gave
IndicesAnswer(got, symbols) ==
  LET Err(kind) == [done |-> TRUE, kind |-> kind, prices |-> EmptyMap,
                    symbols |-> symbols, got |-> got]
  IN  IF got.kind = "error" THEN Err("InternalError")
      ELSE IF got.kind = "none" THEN Err("NotFound")
      ELSE IF got.kind = "corrupt" THEN Err("InternalError")
      ELSE IF symbols # <<>> /\ filtered_indices(got.indices, symbols) = <<>>
        THEN Err("NotFound")
      ELSE [done |-> TRUE, kind |-> "Ok",
            prices |-> IndexPriceMap(filtered_indices(got.indices, symbols)),
            symbols |-> symbols, got |-> got]

\* The indices_extractor replaces the value under INDICES_KEY
ExtractorStores(value) ==
  /\ value.kind # "none"
  /\ tradingview' = [tradingview EXCEPT !.stored = value]
  /\ UNCHANGED <<now, store, accessed, update_lock, reader, rres, sweeper, sres, started,
                 adapter, client, catalog, chunked, quoted, symsvc, indexsvc, news, tracked_by>>

\* IndicesMarketDataService::get_symbol_prices(symbols): one connection, one GET
IndicesGetSymbolPrices(symbols, redis_ok) ==
  /\ LET got == IF redis_ok THEN tradingview.stored ELSE [kind |-> "error", indices |-> <<>>]
     IN  tradingview' = [tradingview EXCEPT !.result = IndicesAnswer(got, symbols)]
  /\ UNCHANGED <<now, store, accessed, update_lock, reader, rres, sweeper, sres, started,
                 adapter, client, catalog, chunked, quoted, symsvc, indexsvc, news, tracked_by>>

\* ------------------------------------------------------------------------
\* SymbolService::initialize_cache (services/symbol.rs)
\* ------------------------------------------------------------------------
\* update_interval_hours * 3600, in the seconds of the model's clock
update_interval_secs == 20
\* Utc::now().timestamp() when the model's clock shows 0
Epoch == 1000
Timestamp(t) == Epoch + t

\* What an earlier run of the service may have left under the symbols_* keys,
\* under "symbols" and under symbols:last_update
StoredCollections == { <<>>, <<<<"A">>>>, <<<<"A">>, <<"B">>, <<"A">>>> }
LastUpdates ==
  {[some |-> FALSE, value |-> 0]} \cup { Some(Timestamp(t)) : t \in {0, TimeStep} }
LegacyCollections ==
  {[some |-> FALSE, value |-> <<>>]} \cup { Some(c) : c \in {<<>>, <<<<"B">>>>} }
\* What fetch_nse_symbols answers: Ok with the equities of the file, or Err
NseAnswers ==
  { [ok |-> TRUE, symbols |-> c] : c \in {<<>>, <<<<"B">>>>, <<<<"A">>, <<"C">>>>} }
    \cup {[ok |-> FALSE, symbols |-> <<>>]}

NoSymbolService ==
  [pc |-> "boot",          \* where initialize_cache stands
   lock |-> "free",        \* the writer of the RwLock around the collection
   collection |-> <<>>,    \* SymbolCollection.symbols
   caller |-> "none",      \* who called fetch_and_merge_upstox_symbols
   nse |-> <<>>,           \* the symbols fetch_and_merge_upstox_symbols merges
   legacy |-> [some |-> FALSE, value |-> <<>>],    \* key symbols
   last_update |-> [some |-> FALSE, value |-> 0],  \* key symbols:last_update
   returned |-> "none"]    \* what initialize_cache returned

\* The symbols_* keys after a save of list that ran to its end
KeysOfSave(list) ==
  [NoChunked EXCEPT
     !.count = Some(Len(list)),
     !.timestamp = Some(0),
     !.chunk_count = Some(ChunkCount(Len(list))),
     !.chunk = [i \in 0..(Chunks(list) - 1) |-> ChunkAt(list, i)]]

\* The store as the service finds it when it is constructed
EarlierRun(chunks, list, legacy, last_update) ==
  /\ symsvc.pc = "boot"
  /\ symsvc' = [symsvc EXCEPT !.pc = "idle", !.legacy = legacy, !.last_update = last_update]
  /\ chunked' = IF chunks THEN KeysOfSave(list) ELSE NoChunked
  /\ UNCHANGED <<now, store, accessed, update_lock, reader, rres, sweeper, sres, started,
                 adapter, client, catalog, quoted, tradingview, indexsvc, news, tracked_by>>

\* self.symbols.write().await completes when no guard is held
WriteLockFree(svc) == svc.lock = "free"

\* initialize_cache: the load from the chunks, else from the legacy key; the
\* write guard taken for the assignment lives until the function returns
InitializeCacheLoad ==
  /\ symsvc.pc = "idle"
  /\ LET all_symbols == LoadChunks(chunked.chunk, 0, chunked.chunk_count.value)
         from_chunks == chunked.chunk_count.some /\ chunked.count.some /\ all_symbols # <<>>
     IN IF from_chunks \/ symsvc.legacy.some
        THEN /\ WriteLockFree(symsvc)
             /\ symsvc' = [symsvc EXCEPT
                             !.pc = "check",
                             !.lock = "initialize_cache",
                             !.collection = IF from_chunks THEN all_symbols
                                            ELSE symsvc.legacy.value]
        ELSE symsvc' = [symsvc EXCEPT !.pc = "fetch", !.caller = "initialize_cache"]
  /\ UNCHANGED <<now, store, accessed, update_lock, reader, rres, sweeper, sres, started,
                 adapter, client, catalog, chunked, quoted, tradingview, indexsvc, news, tracked_by>>

\* check_and_update_upstox_symbols up to its decision; with no update due it
\* returns and initialize_cache returns Ok, dropping its guard
CheckAndUpdateUpstoxSymbols ==
  /\ symsvc.pc = "check"
  /\ LET last_update == IF symsvc.last_update.some THEN symsvc.last_update.value ELSE 0
     IN IF Timestamp(now) - last_update > update_interval_secs \div 2
        THEN symsvc' = [symsvc EXCEPT !.pc = "fetch", !.caller = "check"]
        ELSE symsvc' = [symsvc EXCEPT !.pc = "done", !.lock = "free", !.returned = "Ok"]
  /\ UNCHANGED <<now, store, accessed, update_lock, reader, rres, sweeper, sres, started,
                 adapter, client, catalog, chunked, quoted, tradingview, indexsvc, news, tracked_by>>

\* After fetch_and_merge_upstox_symbols returned to its caller: check sets
\* symbols:last_update and returns; initialize_cache goes on to its save
AfterMerge(svc) ==
  IF svc.caller = "check"
  THEN [svc EXCEPT !.pc = "done", !.lock = "free", !.returned = "Ok",
                   !.last_update = Some(Timestamp(now))]
  ELSE [svc EXCEPT !.pc = "legacy"]

\* fetch_and_merge_upstox_symbols: the fetch, with the mock list when it
\* fails; with no symbol it returns Ok before it takes the lock
FetchNseSymbols(answer) ==
  /\ symsvc.pc = "fetch"
  /\ LET nse_symbols == IF answer.ok THEN answer.symbols ELSE get_mock_nse_symbols
     IN symsvc' = IF nse_symbols = <<>> THEN AfterMerge(symsvc)
                  ELSE [symsvc EXCEPT !.pc = "merge", !.nse = nse_symbols]
  /\ UNCHANGED <<now, store, accessed, update_lock, reader, rres, sweeper, sres, started,
                 adapter, client, catalog, chunked, quoted, tradingview, indexsvc, news, tracked_by>>

RECURSIVE MergeNse(_, _, _)
\* "Add NSE symbols that don't already exist": existing is the ticker set
\* taken before the loop
MergeNse(collection, nse, existing) ==
  IF nse = <<>> THEN collection
  ELSE MergeNse(IF Head(nse) \in existing THEN collection ELSE Append(collection, Head(nse)),
                Tail(nse), existing)

\* fetch_and_merge_upstox_symbols from self.symbols.write().await to the
\* call of save_symbols_to_redis
MergeUpstoxSymbols ==
  /\ symsvc.pc = "merge"
  /\ WriteLockFree(symsvc)
  /\ chunked.save.pc = "idle"
  /\ LET merged == MergeNse(symsvc.collection, symsvc.nse, Range(symsvc.collection))
     IN /\ symsvc' = [symsvc EXCEPT !.pc = "save", !.lock = "fetch_and_merge",
                                    !.collection = merged]
        /\ chunked' = [chunked EXCEPT !.save = [pc |-> "count", symbols |-> merged,
                                                timestamp |-> now, next |-> 0],
                                      !.all_set = TRUE, !.saved = NoSaved, !.loaded = NoLoaded]
  /\ UNCHANGED <<now, store, accessed, update_lock, reader, rres, sweeper, sres, started,
                 adapter, client, catalog, quoted, tradingview, indexsvc, news, tracked_by>>

\* save_symbols_to_redis has returned Ok: drop(symbol_collection), return Ok
MergeReturns ==
  /\ symsvc.pc = "save"
  /\ chunked.save.pc = "idle"
  /\ symsvc' = AfterMerge([symsvc EXCEPT !.lock = "free"])
  /\ UNCHANGED <<now, store, accessed, update_lock, reader, rres, sweeper, sres, started,
                 adapter, client, catalog, chunked, quoted, tradingview, indexsvc, news, tracked_by>>

\* initialize_cache: "Save to Redis for future use" under a read guard
SaveLegacy(run) ==
  /\ symsvc.pc = "legacy"
  /\ symsvc.lock = "free"
  /\ \E ok \in Oks(run.faulty) :
       symsvc' = [symsvc EXCEPT !.pc = "done", !.returned = "Ok",
                                !.legacy = IF ok THEN Some(symsvc.collection) ELSE @]
  /\ UNCHANGED <<now, store, accessed, update_lock, reader, rres, sweeper, sres, started,
                 adapter, client, catalog, chunked, quoted, tradingview, indexsvc, news, tracked_by>>

\* ------------------------------------------------------------------------
\* MarketIndexService (services/market_index.rs)
\* ------------------------------------------------------------------------
MaxProviderCalls == 2    \* calls of set_provider
MaxRefreshIndices == 2   \* calls of refresh_indices by the handler

\* market_indices::get_all_index_symbols
AllIndexSymbols == {"SPX", "DJI"}

\* A provider is what its fetch_market_indices does: the values it gives
\* (a function on the symbols it knows), an Err, or no answer in time
Providers ==
  { [name |-> "one", ok |-> TRUE, quick |-> TRUE, indices |-> [s \in {"SPX"} |-> 1]],
    [name |-> "two", ok |-> TRUE, quick |-> TRUE, indices |-> [s \in AllIndexSymbols |-> 2]],
    [name |-> "none", ok |-> TRUE, quick |-> TRUE, indices |-> <<>>],
    [name |-> "slow", ok |-> TRUE, quick |-> FALSE, indices |-> [s \in {"DJI"} |-> 3]],
    [name |-> "down", ok |-> FALSE, quick |-> TRUE, indices |-> <<>>] }

Callers == {"set_provider", "handler"}
IdleRefresh == [pc |-> "idle", data |-> <<>>]

NoIndexService ==
  [provider |-> [some |-> FALSE, value |-> <<>>],   \* self.provider
   writer |-> "none",          \* who holds the write guard of self.provider
   readers |-> {},             \* who holds a read guard of self.provider
   indices |-> [s \in AllIndexSymbols |-> 0],   \* create_default_indices
   set_provider |-> "idle",    \* idle, or waiting for its refresh
   refresh |-> [c \in Callers |-> IdleRefresh],
   installed |-> [some |-> FALSE, value |-> <<>>],   \* what the last set_provider installed
   outcome |-> "none",         \* how the last set_provider got its refresh back
   calls |-> 0,
   refreshes |-> 0]

\* set_provider up to the await of the refresh: the write guard, the
\* assignment, the timer of ten seconds around refresh_indices
SetProvider(p) ==
  /\ indexsvc.set_provider = "idle"
  /\ indexsvc.calls < MaxProviderCalls
  /\ indexsvc.writer = "none" /\ indexsvc.readers = {}
  /\ indexsvc' = [indexsvc EXCEPT
                    !.writer = "set_provider",
                    !.provider = Some(p),
                    !.set_provider = "waiting",
                    !.refresh["set_provider"] = [pc |-> "lock", data |-> <<>>],
                    !.installed = Some(p),
                    !.outcome = "none",
                    !.calls = @ + 1]
  /\ UNCHANGED <<now, store, accessed, update_lock, reader, rres, sweeper, sres, started,
                 adapter, client, catalog, chunked, quoted, tradingview, symsvc, news, tracked_by>>

\* The handler calls refresh_indices
RefreshIndices ==
  /\ indexsvc.refresh["handler"].pc = "idle"
  /\ indexsvc.refreshes < MaxRefreshIndices
  /\ indexsvc' = [indexsvc EXCEPT !.refresh["handler"] = [pc |-> "lock", data |-> <<>>],
                                  !.refreshes = @ + 1]
  /\ UNCHANGED <<now, store, accessed, update_lock, reader, rres, sweeper, sres, started,
                 adapter, client, catalog, chunked, quoted, tradingview, symsvc, news, tracked_by>>

\* refresh_indices of caller c returns: its read guard is dropped, and
\* set_provider, when it is the caller, returns Ok and drops its write guard
RefreshReturned(svc, c, outcome) ==
  LET back == [svc EXCEPT !.refresh[c] = IdleRefresh, !.readers = @ \ {c}]
  IN IF c = "set_provider"
     THEN [back EXCEPT !.set_provider = "idle", !.writer = "none", !.outcome = outcome]
     ELSE back

\* self.provider.read().await completes when no write guard is held
ReadLockFree(svc) == svc.writer = "none"

\* refresh_indices: the read guard and the provider taken from it
RefreshReadsProvider(c) ==
  /\ indexsvc.refresh[c].pc = "lock"
  /\ ReadLockFree(indexsvc)
  /\ indexsvc' = IF indexsvc.provider.some
                  THEN [indexsvc EXCEPT !.refresh[c].pc = "fetch", !.readers = @ \cup {c}]
                  ELSE RefreshReturned(indexsvc, c, "Ok")
  /\ UNCHANGED <<now, store, accessed, update_lock, reader, rres, sweeper, sres, started,
                 adapter, client, catalog, chunked, quoted, tradingview, symsvc, news, tracked_by>>

\* refresh_indices: provider.fetch_market_indices under its timer of thirty
\* seconds; an Err, a timeout and an empty answer return
ProviderFetches(c) ==
  /\ indexsvc.refresh[c].pc = "fetch"
  /\ LET p == indexsvc.provider.value
     IN /\ c = "set_provider" => p.quick
        /\ indexsvc' =
             IF ~p.quick \/ ~p.ok THEN RefreshReturned(indexsvc, c, "Err")
             ELSE IF DOMAIN p.indices = {} THEN RefreshReturned(indexsvc, c, "Ok")
             ELSE [indexsvc EXCEPT !.refresh[c] = [pc |-> "upsert", data |-> p.indices]]
  /\ UNCHANGED <<now, store, accessed, update_lock, reader, rres, sweeper, sres, started,
                 adapter, client, catalog, chunked, quoted, tradingview, symsvc, news, tracked_by>>

\* refresh_indices: upsert_index for every index of the answer
RefreshUpserts(c) ==
  /\ indexsvc.refresh[c].pc = "upsert"
  /\ LET data == indexsvc.refresh[c].data
         upserted == [s \in AllIndexSymbols |->
                        IF s \in DOMAIN data THEN data[s] ELSE indexsvc.indices[s]]
     IN indexsvc' = RefreshReturned([indexsvc EXCEPT !.indices = upserted], c, "Ok")
  /\ UNCHANGED <<now, store, accessed, update_lock, reader, rres, sweeper, sres, started,
                 adapter, client, catalog, chunked, quoted, tradingview, symsvc, news, tracked_by>>

\* The refresh of set_provider cannot go on before the ten seconds are over
RefreshPending(svc) ==
  \/ svc.refresh["set_provider"].pc = "lock" /\ ~ReadLockFree(svc)
  \/ svc.refresh["set_provider"].pc = "fetch" /\ ~svc.provider.value.quick

\* set_provider: the timer fires, the refresh is dropped, Ok is returned
SetProviderTimesOut ==
  /\ indexsvc.set_provider = "waiting"
  /\ RefreshPending(indexsvc)
  /\ indexsvc' = RefreshReturned(indexsvc, "set_provider", "timeout")
  /\ UNCHANGED <<now, store, accessed, update_lock, reader, rres, sweeper, sres, started,
                 adapter, client, catalog, chunked, quoted, tradingview, symsvc, news, tracked_by>>

\* ------------------------------------------------------------------------
\* NewsService (services/news.rs)
\* ------------------------------------------------------------------------
MaxNewsCalls == 3
\* NEWS_CACHE_DURATION, in the seconds of the model's clock
news_cache_duration == 20

NoString == [some |-> FALSE, value |-> ""]
NoNumber == [some |-> FALSE, value |-> 0]

\* NewsRequest with every field None
NoNewsRequest ==
  [tickers |-> NoString, tags |-> NoString, categories |-> NoString,
   start_date |-> NoString, end_date |-> NoString, limit |-> NoNumber,
   offset |-> NoNumber, sort |-> NoString, location |-> NoString, topics |-> NoString]

\* The requests of the handlers: get_filtered_news passes tags, limit and
\* offset of the query; start_date is a field of the request no handler sets
NewsRequests ==
  { [NoNewsRequest EXCEPT !.tags = tags, !.limit = limit, !.offset = offset,
                          !.start_date = start_date] :
      tags \in {NoString, Some("earnings")},
      limit \in {NoNumber, Some(5)},
      offset \in {NoNumber, Some(10)},
      start_date \in {NoString, Some("2024-01-01")} }

\* One part of the key, "name:value", when the field is set
KeyPart(name, field) == IF field.some THEN <<<<name, field.value>>>> ELSE <<>>

\* generate_cache_key: the parts in the order of the code, joined by ":"
\* (kept as the sequence of the parts: no value of NewsRequests holds a ":")
generate_cache_key(request) ==
  <<"news">> \o KeyPart("tickers", request.tickers) \o KeyPart("tags", request.tags)
    \o KeyPart("categories", request.categories) \o KeyPart("limit", request.limit)
    \o KeyPart("sort", request.sort)
    \o KeyPart("location", request.location) \o KeyPart("topics", request.topics)

\* What news_client.fetch_news answers for a request: a response made for it
NewsResponse(request) == [request |-> request]

NoNews ==
  [cache |-> {},     \* the news:* keys: key, response, expiry
   calls |-> 0,
   result |-> [status |-> "none", hit |-> FALSE, request |-> NoNewsRequest,
               response |-> NewsResponse(NoNewsRequest)]]

\* NewsService::get_news: the cached response on a hit; else the fetch, an
\* Err of it returned, the response cached (a failure is logged) and returned
GetNews(request) ==
  /\ news.calls < MaxNewsCalls
  /\ LET cache_key == generate_cache_key(request)
         cached == { e \in news.cache : e.key = cache_key /\ e.expires > now }
     IN \E get_ok \in BOOLEAN, fetch_ok \in BOOLEAN, set_ok \in BOOLEAN :
          IF get_ok /\ cached # {}
          THEN /\ fetch_ok /\ set_ok
               /\ news' = [news EXCEPT
                             !.calls = @ + 1,
                             !.result = [status |-> "Ok", hit |-> TRUE, request |-> request,
                                         response |-> (CHOOSE e \in cached : TRUE).response]]
          ELSE IF ~fetch_ok
          THEN /\ set_ok
               /\ news' = [news EXCEPT
                             !.calls = @ + 1,
                             !.result = [status |-> "Err", hit |-> FALSE, request |-> request,
                                         response |-> NewsResponse(NoNewsRequest)]]
          ELSE LET news_data == NewsResponse(request)
                   entry == [key |-> cache_key, response |-> news_data,
                             expires |-> now + news_cache_duration]
               IN news' = [news EXCEPT
                             !.calls = @ + 1,
                             !.cache = IF set_ok
                                       THEN { e \in @ : e.key # cache_key } \cup {entry}
                                       ELSE @,
                             !.result = [status |-> "Ok", hit |-> FALSE, request |-> request,
                                         response |-> news_data]]
  /\ UNCHANGED <<now, store, accessed, update_lock, reader, rres, sweeper, sres, started,
                 adapter, client, catalog, chunked, quoted, tradingview, symsvc, indexsvc, tracked_by>>

\* ------------------------------------------------------------------------
\* The clock
\* ------------------------------------------------------------------------
AdvanceTime ==
  /\ now + TimeStep <= MaxTime
  /\ now' = now + TimeStep
  /\ store' = Expire(store, now')
  /\ Unquiet
  /\ UNCHANGED <<accessed, update_lock, sweeper, sres, started, adapter, client>>
  /\ UNCHANGED catalog
  /\ UNCHANGED chunked
  /\ UNCHANGED quoted
  /\ UNCHANGED tradingview
  /\ UNCHANGED symsvc
  /\ UNCHANGED indexsvc
  /\ UNCHANGED news
  /\ UNCHANGED tracked_by

\* ------------------------------------------------------------------------
\* Specification
\* ------------------------------------------------------------------------
Init ==
  /\ now = 0
  /\ store = EmptyMap
  /\ accessed = {}
  /\ update_lock = "free"
  /\ reader = IdleReader
  /\ rres = NoResult
  /\ sweeper = [p \in Sweepers |-> IdleSweeper]
  /\ sres = NoSweep
  /\ started = 0
  /\ adapter = NoCall
  /\ client = NoClient
  /\ catalog = NoCatalog
  /\ chunked = NoChunked
  /\ quoted = NoQuote
  /\ tradingview = NoTradingView
  /\ symsvc = NoSymbolService
  /\ indexsvc = NoIndexService
  /\ news = NoNews
  /\ tracked_by = [prices |-> {}, indices |-> {}]

\* The two kinds of run
Working ==
  [faulty |-> FALSE, calls |-> MaxCalls, uniform |-> FALSE, history |-> FALSE,
   owing |-> FALSE, tracing |-> FALSE]
Faulty ==
  [faulty |-> TRUE, calls |-> MaxFaultyCalls, uniform |-> FALSE, history |-> FALSE,
   owing |-> FALSE, tracing |-> FALSE]
Watching ==
  [faulty |-> FALSE, calls |-> MaxWatchCalls, uniform |-> TRUE, history |-> FALSE,
   owing |-> FALSE, tracing |-> FALSE]
Recording ==
  [faulty |-> FALSE, calls |-> MaxClientCalls, uniform |-> FALSE, history |-> TRUE,
   owing |-> FALSE, tracing |-> FALSE]
Indexed ==
  [faulty |-> FALSE, calls |-> MaxIndexedCalls, uniform |-> TRUE, history |-> FALSE,
   owing |-> FALSE, tracing |-> FALSE]
\* A run that keeps, for each sweep, the symbols it owes a fresh record
Refreshing ==
  [faulty |-> FALSE, calls |-> MaxRefreshCalls, uniform |-> FALSE, history |-> FALSE,
   owing |-> TRUE, tracing |-> FALSE]
Hanging ==
  [faulty |-> FALSE, calls |-> MaxHangCalls, uniform |-> TRUE, history |-> FALSE,
   owing |-> FALSE, tracing |-> FALSE]

\* A run that keeps the symbols each kind of read has asked for
Tracing ==
  [faulty |-> FALSE, calls |-> MaxTracedCalls, uniform |-> TRUE, history |-> FALSE,
   owing |-> FALSE, tracing |-> TRUE]

\* Reads, sweeps and the clock, with a working store
Next ==
  \/ \E l \in RequestLists : GetSymbolPrices(l, Working)
  \/ SymbolPricesLookup(Working)
  \/ SymbolPricesFetch(Working)
  \/ \E l \in IndexLists : GetMarketIndices(l, Working)
  \/ MarketIndicesLookup(Working)
  \/ MarketIndicesFetch(Working)
  \/ \E p \in Sweepers : UpdateAllCachedData(p, Working)
  \/ \E p \in Sweepers : AcquireLock(p)
  \/ \E p \in Sweepers : DueSets(p, Working)
  \/ \E p \in Sweepers : SymbolBatch(p, Working)
  \/ \E p \in Sweepers : IndexBatch(p, Working)
  \/ \E p \in Sweepers : RemoveStaleScan(p, Working)
  \/ \E p \in Sweepers : RemoveStale(p, Working)
  \/ AdvanceTime

Spec == Init /\ [][Next]_vars

\* Reads, sweeps and the clock, with a store whose calls may fail
NextFaults ==
  \/ \E l \in RequestLists : GetSymbolPrices(l, Faulty)
  \/ SymbolPricesLookup(Faulty)
  \/ SymbolPricesFetch(Faulty)
  \/ \E l \in IndexLists : GetMarketIndices(l, Faulty)
  \/ MarketIndicesLookup(Faulty)
  \/ MarketIndicesFetch(Faulty)
  \/ \E p \in Sweepers : UpdateAllCachedData(p, Faulty)
  \/ \E p \in Sweepers : AcquireLock(p)
  \/ \E p \in Sweepers : DueSets(p, Faulty)
  \/ \E p \in Sweepers : SymbolBatch(p, Faulty)
  \/ \E p \in Sweepers : IndexBatch(p, Faulty)
  \/ \E p \in Sweepers : RemoveStaleScan(p, Faulty)
  \/ \E p \in Sweepers : RemoveStale(p, Faulty)
  \/ AdvanceTime

SpecFaults == Init /\ [][NextFaults]_vars

\* Reads of a watchlist longer than one sweep batch, sweeps and the clock
NextWatchlist ==
  \/ GetSymbolPrices(Watchlist, Watching)
  \/ SymbolPricesLookup(Watching)
  \/ SymbolPricesFetch(Watching)
  \/ \E p \in Sweepers : UpdateAllCachedData(p, Watching)
  \/ \E p \in Sweepers : AcquireLock(p)
  \/ \E p \in Sweepers : DueSets(p, Watching)
  \/ \E p \in Sweepers : SymbolBatch(p, Watching)
  \/ \E p \in Sweepers : IndexBatch(p, Watching)
  \/ \E p \in Sweepers : RemoveStaleScan(p, Watching)
  \/ \E p \in Sweepers : RemoveStale(p, Watching)
  \/ AdvanceTime

SpecWatchlist == Init /\ [][NextWatchlist]_vars

\* Calls of the adapter on its own, against every upstream answer
NextAdapter ==
  \/ \E l \in RequestLists : FetchMarketData(l)
  \/ AdvanceTime

SpecAdapter == Init /\ [][NextAdapter]_vars

\* Reads and a client of the price store, with the write history kept; no
\* sweep runs, so that a key leaves the store by expiry only
NextStore ==
  \/ \E l \in RequestLists : GetSymbolPrices(l, Recording)
  \/ SymbolPricesLookup(Recording)
  \/ SymbolPricesFetch(Recording)
  \/ \E k \in ClientKeys : StoreSet(k)
  \/ \E k \in ClientKeys : StoreGet(k)
  \/ AdvanceTime

SpecStore == Init /\ [][NextStore]_vars

\* A step of the sweep of task p
SweepStep(p, run) ==
  \/ AcquireLock(p)
  \/ DueSets(p, run)
  \/ SymbolBatch(p, run)
  \/ IndexBatch(p, run)
  \/ RemoveStaleScan(p, run)
  \/ RemoveStale(p, run)

\* Reads of prices, sweeps and the clock, with what each sweep owes kept
NextRefresh ==
  \/ \E l \in RequestLists : GetSymbolPrices(l, Refreshing)
  \/ SymbolPricesLookup(Refreshing)
  \/ SymbolPricesFetch(Refreshing)
  \/ \E p \in Sweepers : UpdateAllCachedData(p, Refreshing)
  \/ \E p \in Sweepers : SweepStep(p, Refreshing)
  \/ AdvanceTime

SpecRefresh == Init /\ [][NextRefresh]_vars

\* Reads, sweeps and the clock, with store calls of a sweep that may hang
NextHangs ==
  \/ \E l \in RequestLists : GetSymbolPrices(l, Hanging)
  \/ SymbolPricesLookup(Hanging)
  \/ SymbolPricesFetch(Hanging)
  \/ \E p \in Sweepers : UpdateAllCachedData(p, Hanging)
  \/ \E p \in Sweepers : SweepStep(p, Hanging)
  \/ \E p \in Sweepers : StoreCallHangs(p)
  \/ AdvanceTime

\* The runtime goes on with every task that can go on: a sweep whose call
\* has returned takes its next step
SpecHangs ==
  Init /\ [][NextHangs]_vars /\ \A p \in Sweepers : WF_vars(SweepStep(p, Hanging))

NextSymbols ==
  \/ RefreshCache(Working)
  \/ \E fetched \in Fetches : LoadUpstoxSymbolsIntoRedis(fetched, Working)
  \/ SetLastUpdated(Working)
  \/ GetSymbolCount
  \/ \E prefix \in Prefixes, limit \in Limits : SearchSymbolsByPrefix(prefix, limit)

SpecSymbols == Init /\ [][NextSymbols]_vars

\* Reloads of the bulk symbol cache whose Redis calls may fail, and counts
NextSymbolsFaults ==
  \/ RefreshCache(Faulty)
  \/ \E fetched \in Fetches : LoadUpstoxSymbolsIntoRedis(fetched, Faulty)
  \/ SetLastUpdated(Faulty)
  \/ GetSymbolCount

SpecSymbolsFaults == Init /\ [][NextSymbolsFaults]_vars

\* Reads of prices and of indices and sweeps, over a store in which another
\* writer keeps index records
NextNamespaces ==
  \/ \E l \in RequestLists : GetSymbolPrices(l, Indexed)
  \/ SymbolPricesLookup(Indexed)
  \/ SymbolPricesFetch(Indexed)
  \/ \E l \in RequestLists : GetMarketIndices(l, Indexed)
  \/ MarketIndicesLookup(Indexed)
  \/ MarketIndicesFetch(Indexed)
  \/ \E p \in Sweepers : UpdateAllCachedData(p, Indexed)
  \/ \E p \in Sweepers : SweepStep(p, Indexed)
  \/ \E k \in IndexKeys : StoreSet(k)
  \/ AdvanceTime

SpecNamespaces == Init /\ [][NextNamespaces]_vars

\* Reads of both kinds and sweeps, with the symbols of each kind kept
NextTracked ==
  \/ \E l \in RequestLists : GetSymbolPrices(l, Tracing)
  \/ SymbolPricesLookup(Tracing)
  \/ SymbolPricesFetch(Tracing)
  \/ \E l \in RequestLists : GetMarketIndices(l, Tracing)
  \/ MarketIndicesLookup(Tracing)
  \/ MarketIndicesFetch(Tracing)
  \/ \E p \in Sweepers : UpdateAllCachedData(p, Tracing)
  \/ \E p \in Sweepers : SweepStep(p, Tracing)
  \/ AdvanceTime

SpecTracked == Init /\ [][NextTracked]_vars

\* Price records made of every quote and previous close
NextPrices ==
  \E source \in Sources, price \in Prices, previous \in PrevCloses :
    ProducePrice(source, price, previous)

SpecPrices == Init /\ [][NextPrices]_vars

\* The indices service reading the collection the extractor keeps under INDICES_KEY
NextIndices ==
  \/ \E value \in StoredIndices : ExtractorStores(value)
  \/ \E symbols \in IndexRequests, redis_ok \in BOOLEAN :
       IndicesGetSymbolPrices(symbols, redis_ok)

SpecIndices == Init /\ [][NextIndices]_vars

\* Saves of the chunked symbol collection and loads of it, which may come
\* while a save is under way
NextChunks ==
  \/ \E list \in CollectionLists : SaveSymbolsToRedis(list)
  \/ SaveCount(Working)
  \/ SaveTimestamp(Working)
  \/ SaveChunk(Working)
  \/ SaveChunkCount(Working)
  \/ InitializeCache

SpecChunks == Init /\ [][NextChunks]_vars

\* MarketIndexService with providers installed and the handler's refreshes
NextProvider ==
  \/ \E p \in Providers : SetProvider(p)
  \/ RefreshIndices
  \/ \E c \in Callers : RefreshReadsProvider(c)
  \/ \E c \in Callers : ProviderFetches(c)
  \/ \E c \in Callers : RefreshUpserts(c)
  \/ SetProviderTimesOut

SpecProvider == Init /\ [][NextProvider]_vars

\* NewsService::get_news called by the handlers while time passes
NextNews ==
  \/ \E request \in NewsRequests : GetNews(request)
  \/ AdvanceTime

SpecNews == Init /\ [][NextNews]_vars

\* One step of the task that constructs the SymbolService
InitializeCacheStep ==
  \/ InitializeCacheLoad
  \/ CheckAndUpdateUpstoxSymbols
  \/ \E answer \in NseAnswers : FetchNseSymbols(answer)
  \/ MergeUpstoxSymbols
  \/ symsvc.pc = "save" /\ SaveCount(Working)
  \/ symsvc.pc = "save" /\ SaveTimestamp(Working)
  \/ symsvc.pc = "save" /\ SaveChunk(Working)
  \/ symsvc.pc = "save" /\ SaveChunkCount(Working)
  \/ MergeReturns
  \/ SaveLegacy(Working)

\* SymbolService::new on what an earlier run left in the store
NextBoot ==
  \/ \E chunks \in BOOLEAN, list \in StoredCollections,
        legacy \in LegacyCollections, last_update \in LastUpdates :
       EarlierRun(chunks, list, legacy, last_update)
  \/ InitializeCacheStep
  \/ symsvc.pc \in {"idle", "done"} /\ AdvanceTime

\* The runtime goes on with the task as long as it can take a step
SpecBoot == Init /\ [][NextBoot]_vars /\ WF_vars(InitializeCacheStep)

\* ------------------------------------------------------------------------
\* Properties
\* ------------------------------------------------------------------------
\* The sweep of task p is between acquiring and releasing the lock
Running(p) == sweeper[p].pc \in {"due", "symbols", "indices", "prune", "remove"}

\* Task p takes the step that calls the adapter for one batch
BatchStep(p) ==
  /\ sweeper[p].pc \in {"symbols", "indices"}
  /\ sweeper'[p] # sweeper[p]

\* The sweep of task p returns in this step
ReturnStep(p) == sweeper[p].pc # "idle" /\ sweeper'[p].pc = "idle"

\* C1: a call of update_all_cached_data that arrives while another call
\* holds the lock is skipped, not queued: it never calls the adapter.
C1_SecondTriggerSkipped ==
  [][\A p \in Sweepers : sweeper[p].waited => ~BatchStep(p)]_vars

\* C2: at most one update_all_cached_data is between acquiring and releasing
\* the lock, and it is the one holding the lock.
C2_OneSweepAtATime ==
  \A p, q \in Sweepers :
    Running(p) => (update_lock = p /\ (Running(q) => p = q))

C2_Witness ==
  \E p, q \in Sweepers :
    /\ sweeper[p].pc \in {"symbols", "indices", "prune", "remove"}
    /\ sweeper[q].pc = "waiting"

\* C3: a get_symbol_prices([S]) that directly follows a get_symbol_prices([S])
\* which returned a price is served from the store: it returns the same
\* record and makes no adapter call.
C3_SecondReadFromCache ==
  (rres.kind = "prices" /\ rres.again /\ Len(rres.symbols) = 1 /\ rres.prev # EmptyMap)
    => (rres.ok /\ rres.calls = 0 /\ rres.prices = rres.prev)

\* C4: a get_symbol_prices of a non-empty list with no cache hit for which
\* the adapter returns nothing reports NotFound, not Ok with an empty map.
C4_NoDataIsNotFound ==
  (rres.kind = "prices" /\ rres.symbols # <<>> /\ rres.hits = {} /\ rres.calls = 1
     /\ rres.prices = EmptyMap)
    => (~rres.ok /\ rres.err = "NotFound")

\* C5: a read that had a cache hit returns Ok with the cached records, also
\* when the upstream failed for the misses; a provider error is returned only
\* by a read without any cache hit.
C5_CachedPreferredToError ==
  /\ (rres.kind \in {"prices", "indices"} /\ rres.hits # {})
       => (rres.ok /\ rres.hits \subseteq DOMAIN rres.prices)
  /\ (rres.err = "ExternalServiceError") => rres.hits = {}

C5_Witness ==
  /\ rres.kind = "prices" /\ rres.calls = 1 /\ rres.up_failed
  /\ rres.hits # {} /\ rres.ok /\ rres.hits = DOMAIN rres.prices

\* C6: a failure of track_accessed_symbols does not fail the read.
C6_TrackFailureTolerated ==
  (rres.kind \in {"prices", "indices"} /\ rres.track_failed) => rres.ok

\* The key under which the read path caches the record fetched for symbol
Out(symbol) == format_output_symbol(clean_symbol(symbol))

\* Neither a tracker entry nor a cached record is left of symbol
Gone(symbol, acc, st) ==
  /\ symbol \notin Members(acc)
  /\ Key(SYMBOL_PRICE_PREFIX, symbol) \notin DOMAIN st
  /\ Key(MARKET_INDEX_PREFIX, symbol) \notin DOMAIN st
  /\ (Out(symbol) \notin Members(acc) => Key(SYMBOL_PRICE_PREFIX, Out(symbol)) \notin DOMAIN st)

\* C7: when a sweep that found a symbol stale completes, neither the tracker
\* entry nor a cached record of the symbol is left.
C7_StaleSymbolGone ==
  [][\A p \in Sweepers :
       (sweeper[p].pc = "remove" /\ ReturnStep(p))
         => \A i \in 1..Len(sweeper[p].stale) : Gone(sweeper[p].stale[i], accessed', store')]_vars

\* A read tracks its symbols in this step
TrackStep == reader.pc = "idle" /\ reader'.pc # "idle"

\* C8: the tracker holds exactly one entry per symbol, the entry of a symbol
\* that is tracked gets the time of the call as its score, and the score of
\* a symbol never moves backwards.
C8_OneEntryLatestScore ==
  [][\A m \in Members(accessed') :
       /\ Cardinality(Entries(accessed', m)) = 1
       /\ (m \in Members(accessed) => Score(accessed', m) >= Score(accessed, m))
       /\ (TrackStep /\ m \in Range(reader'.symbols)) => Score(accessed', m) = now]_vars

C8_Witness ==
  /\ reader.pc # "idle" /\ reader.again /\ now > 0
  /\ \A m \in Range(reader.symbols) :
       Cardinality(Entries(accessed, m)) = 1 /\ Score(accessed, m) = now

\* C9: update_all_cached_data returns Ok when the adapter call of every batch
\* failed; an Err comes from the store only.
C9_SweepReturnsOk ==
  /\ sres.all_failed => sres.status = "Ok"
  /\ sres.status = "Err" => sres.store_failed

C9_Witness == sres.all_failed /\ sres.status = "Ok"

\* C10: after a failed batch the sweep goes on: the next batch is fetched
\* and what the adapter returns for it is written to the store, and the
\* sweep returns only from the pruning step.
C10_FailedBatchIsolated ==
  [][\A p \in Sweepers :
       LET ctx == sweeper[p]
           after == sweeper'[p]
       IN /\ (ctx.pc = "symbols" /\ BatchStep(p) /\ ctx.failed > 0)
               => /\ after.batches = ctx.batches + 1
                  /\ \A i \in 1..Len(after.fresh) :
                       /\ Key(SYMBOL_PRICE_PREFIX, after.fresh[i].symbol) \in DOMAIN store'
                       /\ store'[Key(SYMBOL_PRICE_PREFIX, after.fresh[i].symbol)] =
                            [value |-> after.fresh[i], expires |-> now + cache_duration]
          /\ (ctx.pc = "symbols" /\ BatchStep(p))
               => IF ctx.next + SymbolChunk <= Len(ctx.symbols)
                  THEN after.pc = "symbols" /\ after.next = ctx.next + SymbolChunk
                  ELSE after.pc \in {"indices", "prune"}
          /\ (ctx.pc = "indices" /\ BatchStep(p))
               => IF ctx.next + IndexChunk <= Len(ctx.indices)
                  THEN after.pc = "indices" /\ after.next = ctx.next + IndexChunk
                  ELSE after.pc = "prune"
          /\ (ReturnStep(p) /\ ctx.failed > 0) => ctx.pc \in {"prune", "remove"}]_vars

C10_Witness ==
  \E p \in Sweepers :
    /\ sweeper[p].pc \in {"indices", "prune", "remove"}
    /\ sweeper[p].batches = 2 /\ sweeper[p].failed = 1
    /\ sweeper[p].fresh # <<>>
    /\ \A i \in 1..Len(sweeper[p].fresh) :
         Key(SYMBOL_PRICE_PREFIX, sweeper[p].fresh[i].symbol) \in DOMAIN store

\* The positions of the chunk whose fetch ended with a record
Succeeding(outcomes) ==
  SelectSeq([i \in 1..Len(outcomes) |-> i], LAMBDA i : outcomes[i] = "some")

\* The sweep goes on after the symbol batch that task p fetches in this step
SweepProceeds(ctx, after) ==
  IF ctx.next + SymbolChunk <= Len(ctx.symbols)
  THEN after.pc = "symbols" /\ after.next = ctx.next + SymbolChunk
  ELSE after.pc \in {"indices", "prune"}

\* C11: a symbol batch returns exactly one record per symbol whose fetch
\* succeeded, whatever happened to the other symbols; exactly these records
\* are written to the store, and the sweep proceeds.
C11_PartialBatch ==
  [][\A p \in Sweepers :
       LET ctx == sweeper[p]
           after == sweeper'[p]
           chunk == Chunk(ctx.symbols, ctx.next, SymbolChunk)
           good == Succeeding(after.outcomes)
           keys == { Key(SYMBOL_PRICE_PREFIX, after.fresh[j].symbol) : j \in 1..Len(after.fresh) }
       IN (ctx.pc = "symbols" /\ BatchStep(p))
            => /\ Len(after.outcomes) = Len(chunk)
               /\ Len(after.fresh) = Len(good)
               /\ \A j \in 1..Len(good) :
                    /\ after.fresh[j].symbol = Out(chunk[good[j]])
                    /\ Key(SYMBOL_PRICE_PREFIX, after.fresh[j].symbol) \in DOMAIN store'
                    /\ store'[Key(SYMBOL_PRICE_PREFIX, after.fresh[j].symbol)] =
                         [value |-> after.fresh[j], expires |-> now + cache_duration]
               /\ DOMAIN store' = DOMAIN store \cup keys
               /\ \A k \in DOMAIN store : k \notin keys => store'[k] = store[k]
               /\ SweepProceeds(ctx, after)]_vars

C11_Witness ==
  \E p \in Sweepers :
    /\ sweeper[p].pc \in {"indices", "prune"}
    /\ \E i, j \in 1..Len(sweeper[p].outcomes) :
         sweeper[p].outcomes[i] = "err" /\ sweeper[p].outcomes[j] = "some"
    /\ Len(sweeper[p].fresh) = 1
    /\ Key(SYMBOL_PRICE_PREFIX, sweeper[p].fresh[1].symbol) \in DOMAIN store

\* The upstream answers of up, with the real-time quote of symbol absent
\* instead of whatever it was
QuoteAbsent(up, symbol) == [up EXCEPT ![clean_symbol(symbol)].iex = "none"]

\* C12: an error of the real-time quote of a symbol is not treated as
\* absence: the end-of-day data is not asked for, and what the caller of
\* fetch_market_data gets differs from what it gets when the quote is absent.
C12_ErrorIsNotAbsence ==
  adapter.called =>
    \A i \in 1..Len(adapter.symbols) :
      adapter.up[clean_symbol(adapter.symbols[i])].iex = "err"
        => /\ adapter.queries[i] = <<"iex">>
           /\ adapter.result #
                fetch_market_data(adapter.symbols,
                                  QuoteAbsent(adapter.up, adapter.symbols[i]), adapter.at)

\* C13: per symbol the adapter asks for the real-time quote first, for the
\* end-of-day data of today only when the quote is absent, and for the
\* end-of-day data of the prior trading day only when today's is empty; the
\* record of the prior trading day has change 0 and percent_change 0.
C13_FallbackOrder ==
  adapter.called =>
    \A i \in 1..Len(adapter.symbols) :
      LET answer == adapter.up[clean_symbol(adapter.symbols[i])]
          asked == SelectSeq(adapter.queries[i], LAMBDA q : q # "prev_close")
          record == FetchOne(adapter.symbols[i], adapter.up, adapter.at)
      IN /\ asked \in { <<"iex">>, <<"iex", "eod">>, <<"iex", "eod", "prev_eod">> }
         /\ Len(asked) >= 2 <=> answer.iex = "none"
         /\ Len(asked) = 3 <=> (answer.iex = "none" /\ answer.eod = "empty")
         /\ (Len(asked) = 3 /\ record # <<>>)
              => (record[1].change = 0 /\ record[1].percent_change = 0)

\* By the writes seen, the record under key has not yet expired at time t
Live(key, t) ==
  /\ key \in DOMAIN client.history
  /\ t < client.history[key].last + client.history[key].expiry

\* C14: set overwrites and resets the TTL: a key is in the store exactly
\* until its expiry has passed since the last write, with the value of the
\* last write, whenever the first write was.
C14_SetResetsTtl ==
  \A k \in DOMAIN client.history :
    /\ k \in DOMAIN store <=> Live(k, now)
    /\ k \in DOMAIN store
         => /\ store[k].expires = client.history[k].last + client.history[k].expiry
            /\ store[k].value.price = Quote(client.history[k].last)

C14_Witness ==
  \E k \in DOMAIN client.history :
    LET h == client.history[k]
    IN /\ h.first < h.last
       /\ client.got.done /\ client.got.key = k /\ client.got.some
       /\ h.first < client.got.at /\ client.got.at <= h.last
       /\ now >= h.first + h.expiry
       /\ k \in DOMAIN store

\* C15: get returns None for a key that was never written and for a key
\* whose expiry has passed alike; get_symbol_prices takes every such symbol
\* as a miss, calls the adapter for the misses and caches what it returns.
C15_ExpiredIsAbsent ==
  [][/\ client'.got # client.got
          => (client'.got.some <=> Live(client'.got.key, now))
     /\ (reader.pc = "p_lookup" /\ reader'.pc # "p_lookup")
          => \A x \in Range(reader.symbols) :
               ~Live(Key(SYMBOL_PRICE_PREFIX, x), now)
                 => (reader'.pc = "p_fetch" /\ x \in Range(reader'.to_fetch))
     /\ (reader.pc = "p_fetch" /\ reader'.pc = "idle")
          => /\ rres'.calls = 1
             /\ \A x \in DOMAIN rres'.prices :
                  x \notin DOMAIN reader.cached
                    => /\ Key(SYMBOL_PRICE_PREFIX, x) \in DOMAIN store'
                       /\ store'[Key(SYMBOL_PRICE_PREFIX, x)] =
                            [value |-> rres'.prices[x], expires |-> now + cache_duration]]_vars

C15_Witness ==
  /\ rres.kind = "prices" /\ rres.ok /\ rres.calls = 1
  /\ \E x \in rres.expired :
       /\ x \in DOMAIN rres.prices
       /\ Key(SYMBOL_PRICE_PREFIX, x) \in DOMAIN store
       /\ store[Key(SYMBOL_PRICE_PREFIX, x)].expires = now + cache_duration

\* C16: a get that fails for a requested symbol makes the symbol a miss:
\* it is among the symbols sent to the adapter, and the read returns Ok.
C16_ReadFailureIsMiss ==
  /\ reader.pc \in {"p_fetch", "i_fetch"}
       => /\ reader.get_failed \subseteq Range(reader.to_fetch)
          /\ Range(reader.symbols) = (DOMAIN reader.cached) \cup Range(reader.to_fetch)
  /\ rres.get_failed # {} => (rres.ok /\ rres.calls = 1)

C16_Witness ==
  /\ rres.kind = "prices" /\ rres.get_failed # {} /\ rres.ok /\ rres.calls = 1
  /\ \E x \in rres.get_failed : Out(x) \in DOMAIN rres.prices

\* C17: a set that fails for a fetched record is recovered locally: the read
\* returns the record in its Ok result; the sweep writes the other records
\* of the batch, goes on with the next batch and returns Ok.
C17_WriteFailureRecovered ==
  [][/\ rres'.set_failed # {}
          => (rres'.ok /\ rres'.set_failed \subseteq DOMAIN rres'.prices)
     /\ sres'.writes_failed => sres'.status = "Ok"
     /\ \A p \in Sweepers :
          LET ctx == sweeper[p]
              after == sweeper'[p]
          IN (ctx.pc = "symbols" /\ BatchStep(p) /\ after.set_failed # {})
               => /\ SweepProceeds(ctx, after)
                  /\ \A j \in 1..Len(after.fresh) :
                       after.fresh[j].symbol \notin after.set_failed
                         => /\ Key(SYMBOL_PRICE_PREFIX, after.fresh[j].symbol) \in DOMAIN store'
                            /\ store'[Key(SYMBOL_PRICE_PREFIX, after.fresh[j].symbol)] =
                                 [value |-> after.fresh[j],
                                  expires |-> now + cache_duration]]_vars

C17_Witness ==
  /\ rres.set_failed # {} /\ rres.ok
  /\ \E x \in rres.set_failed : Key(SYMBOL_PRICE_PREFIX, x) \notin DOMAIN store
  /\ sres.writes_failed /\ sres.status = "Ok"

\* The tracked symbol was last accessed stale_threshold seconds ago or more:
\* the sweep's remove_stale_symbols would select it at time t
Stale(acc, symbol, t) == Score(acc, symbol) <= t - stale_threshold

\* The tracked symbol's record under prefix is absent or expires within 10 s
Due(prefix, symbol) ==
  \/ Key(prefix, symbol) \notin DOMAIN store
  \/ store[Key(prefix, symbol)].expires - now <= DueTtl

\* C18: the due-sets a sweep computes are exactly the tracked symbols that
\* are not stale and whose record is absent or expires within 10 seconds; a
\* stale symbol is never in a due-set.
C18_DueSetSkipsStale ==
  [][\A p \in Sweepers :
       (sweeper[p].pc = "due" /\ sweeper'[p].pc \in {"symbols", "indices", "prune"})
         => /\ Range(sweeper'[p].symbols) =
                 { x \in Members(accessed) :
                     ~Stale(accessed, x, now) /\ Due(SYMBOL_PRICE_PREFIX, x) }
            /\ Range(sweeper'[p].indices) =
                 { x \in Members(accessed) :
                     ~Stale(accessed, x, now) /\ Due(MARKET_INDEX_PREFIX, x) }]_vars

\* C19: a get_symbol_count made after refresh_cache returned Ok(n) returns
\* the number of records that were passed in, which is n.
C19_CountIsRecordsPassed ==
  (catalog.counted.done /\ catalog.counted.loaded)
    => /\ catalog.counted.value = Len(catalog.refreshed.input)
       /\ catalog.counted.value = catalog.refreshed.n

\* The ticker starts with the prefix, whatever the case of the prefix
StartsWith(ticker, prefix) ==
  /\ Len(prefix) <= Len(ticker)
  /\ SubSeq(ticker, 1, Len(prefix)) = to_uppercase(prefix)

\* The loaded tickers that start with the prefix
Matching(cat, prefix) == { t \in Members(cat.all) : StartsWith(t, prefix) }

\* C20: a search made after a reload returns exactly min(limit, number of
\* loaded tickers starting with the prefix) records, each of a ticker that
\* starts with the prefix.
C20_SearchReturnsMinOfLimit ==
  (catalog.found.done /\ catalog.found.loaded)
    => LET found == catalog.found
       IN /\ Len(found.results) =
               Min(found.limit, Cardinality(Matching(catalog, found.prefix)))
          /\ \A i \in 1..Len(found.results) :
               StartsWith(found.results[i].ticker, found.prefix)

\* Every record of the list is in Redis: hash, sorted-index entry and
\* membership-set entries
AllWritten(cat, symbols) ==
  \A t \in Range(symbols) :
    /\ t \in DOMAIN cat.data
    /\ t \in Members(cat.all)
    /\ \A k \in FilterSets : t \in cat.sets[k]

\* No key of the symbols namespace exists
NoSymbolsKeys(cat) ==
  /\ cat.all = {} /\ cat.data = EmptyMap /\ ~cat.last_updated
  /\ \A k \in FilterSets : cat.sets[k] = {}

\* C21: refresh_cache deletes every key of the symbols namespace first,
\* writes records, index and membership sets only after that, and writes the
\* last-updated timestamp only after all of them; when the rebuild fails
\* part-way the timestamp is absent.
C21_DeleteThenRebuildThenStamp ==
  [][/\ (catalog.pc = "idle" /\ catalog'.pc = "load") => NoSymbolsKeys(catalog')
     /\ (catalog'.data # catalog.data /\ catalog'.data # EmptyMap)
          => (catalog.pc = "load" /\ ~catalog'.last_updated)
     /\ (catalog'.last_updated /\ ~catalog.last_updated)
          => (catalog.pc = "stamp" /\ AllWritten(catalog, catalog.loading))
     /\ catalog'.refreshed.failed_at = "load" => ~catalog'.last_updated]_vars

C21_Witness ==
  /\ catalog.refreshed.done /\ catalog.refreshed.failed_at = "load"
  /\ catalog.all # {}
  /\ ~AllWritten(catalog, catalog.refreshed.input)
  /\ ~catalog.last_updated

\* Every chunk of the collection being saved is in Redis
ChunksWritten(ch) ==
  \A i \in 0..(Chunks(ch.save.symbols) - 1) :
    i \in DOMAIN ch.chunk /\ ch.chunk[i] = ChunkAt(ch.save.symbols, i)

\* C22: save_symbols_to_redis writes symbols_count, symbols_timestamp and
\* symbols_chunk_count after every chunk, and a load never finds fewer
\* symbols in the chunks than the count it read announces.
C22_MetadataWrittenLast ==
  [][/\ (chunked.save.pc \in {"count", "timestamp", "chunk_count"}
           /\ chunked'.save.pc # chunked.save.pc)
          => ChunksWritten(chunked)
     /\ chunked'.loaded.done
          => Len(chunked'.loaded.symbols) >= chunked'.loaded.total_count]_vars

\* C23: after a save of n symbols whose writes succeeded, the chunk count is
\* ceil(n / CHUNK_SIZE), every chunk but the last holds CHUNK_SIZE symbols,
\* the last the rest, and the chunks 0..chunk_count-1 give back the n
\* symbols saved, to initialize_cache too, whatever an earlier save left.
C23_ChunksReconstruct ==
  (chunked.save.pc = "idle" /\ chunked.saved.done /\ chunked.saved.all_set)
    => LET n == Len(chunked.saved.symbols)
           cc == chunked.chunk_count.value
       IN /\ chunked.chunk_count.some
          /\ cc * CHUNK_SIZE >= n /\ (cc = 0 \/ (cc - 1) * CHUNK_SIZE < n)
          /\ \A i \in 0..(cc - 2) : Len(chunked.chunk[i]) = CHUNK_SIZE
          /\ cc > 0 => Len(chunked.chunk[cc - 1]) = n - CHUNK_SIZE * (cc - 1)
          /\ LoadChunks(chunked.chunk, 0, cc) = chunked.saved.symbols
          /\ (chunked.loaded.done /\ chunked.loaded.settled)
               => chunked.loaded.symbols = chunked.saved.symbols

C23_Witness ==
  /\ chunked.save.pc = "idle" /\ chunked.saved.done
  /\ Len(chunked.saved.symbols) % CHUNK_SIZE # 0
  /\ \E i \in DOMAIN chunked.chunk : i >= chunked.chunk_count.value
  /\ chunked.loaded.done /\ chunked.loaded.settled /\ chunked.loaded.from = "chunks"

\* C24: a sweep one of whose calls never responds is abandoned: it ends,
\* the lock is released, and the task is back at its timer.
C24_HungSweepAbandoned ==
  \A p \in Sweepers :
    (sweeper[p].pc = "hung") ~> (sweeper[p].pc = "idle" /\ update_lock # p)

\* The price the change of the record is taken against: the previous close
\* of the quote, or the price itself when the source gives none
PreviousPrice(q) == IF q.previous.some THEN q.previous.value ELSE q.price

\* C25: every price record an adapter makes has change = price - previous
\* price, and percent_change = change / previous price * 100, or 0 when the
\* previous price is 0.
C25_ChangeAndPercent ==
  quoted.done
    => LET previous == PreviousPrice(quoted)
           record == quoted.record
       IN /\ record.price = quoted.price
          /\ record.change = record.price - previous
          /\ record.percent_is = "finite"
          /\ record.percent_change =
               IF previous # 0 THEN (record.change * 100) \div previous ELSE 0

\* The records of the store under the keys that start with the prefix
Namespace(st, prefix) == Restrict(st, { k \in DOMAIN st : k[1] = prefix })

\* A step of get_symbol_prices after its tracking, or a symbol batch
PriceStep ==
  \/ reader.pc \in {"p_lookup", "p_fetch"} /\ reader'.pc # reader.pc
  \/ \E p \in Sweepers : sweeper[p].pc = "symbols" /\ BatchStep(p)

\* A step of get_market_indices after its tracking, or an index batch
IndexStep ==
  \/ reader.pc \in {"i_lookup", "i_fetch"} /\ reader'.pc # reader.pc
  \/ \E p \in Sweepers : sweeper[p].pc = "indices" /\ BatchStep(p)

\* C26: the price path reads and writes price keys only and the index path
\* index keys only: a price step leaves every index record as it is and
\* takes no index record for a price, and the other way round.
C26_DistinctNamespaces ==
  [][/\ PriceStep
          => /\ Namespace(store', MARKET_INDEX_PREFIX) = Namespace(store, MARKET_INDEX_PREFIX)
             /\ reader.pc = "p_lookup"
                  => \A x \in Hits(SYMBOL_PRICE_PREFIX, reader.symbols, {}) :
                       <<SYMBOL_PRICE_PREFIX, x>> \in DOMAIN store
     /\ IndexStep
          => /\ Namespace(store', SYMBOL_PRICE_PREFIX) = Namespace(store, SYMBOL_PRICE_PREFIX)
             /\ reader.pc = "i_lookup"
                  => \A x \in Hits(MARKET_INDEX_PREFIX, reader.symbols, {}) :
                       <<MARKET_INDEX_PREFIX, x>> \in DOMAIN store]_vars

\* A price record was written for A.US while an index record of the same
\* name, older than it, is in the store
C26_Witness ==
  /\ <<SYMBOL_PRICE_PREFIX, SymAUS>> \in DOMAIN store
  /\ <<MARKET_INDEX_PREFIX, SymAUS>> \in DOMAIN store
  /\ store[<<MARKET_INDEX_PREFIX, SymAUS>>].expires < store[<<SYMBOL_PRICE_PREFIX, SymAUS>>].expires
  /\ rres.kind = "prices" /\ rres.ok /\ rres.calls = 1

\* The stored indices a request is about: all of them for an empty request
Requested(got, symbols) ==
  { index \in Range(got.indices) : symbols = <<>> \/ index.symbol \in Range(symbols) }

\* What an answer of the indices service owes to what the GET gave
IndicesContract(r) ==
  /\ r.got.kind = "none" => r.kind = "NotFound"
  /\ r.got.kind = "collection" /\ r.symbols # <<>> /\ Requested(r.got, r.symbols) = {}
       => r.kind = "NotFound"
  /\ r.got.kind = "collection" /\ (r.symbols = <<>> \/ Requested(r.got, r.symbols) # {})
       => /\ r.kind = "Ok"
          /\ Range(r.prices) = { convert_to_symbol_price(index) :
                                   index \in Requested(r.got, r.symbols) }
          /\ \A x \in DOMAIN r.prices : r.prices[x].symbol = x

RemovalStep(p) == sweeper[p].pc = "remove" /\ sweeper'[p].pc # "remove"

\* C28: when the stale removal of a sweep runs along with the tracking of a
\* read, a symbol whose latest access is within the stale threshold stays in
\* the tracker and keeps its cached record.
C28_FreshSurvivesRemoval ==
  [][\A p \in Sweepers :
       RemovalStep(p)
         => \A x \in Members(accessed) :
              ~Stale(accessed, x, now)
                => /\ x \in Members(accessed')
                   /\ \A prefix \in {SYMBOL_PRICE_PREFIX, MARKET_INDEX_PREFIX} :
                        Key(prefix, x) \in DOMAIN store => Key(prefix, x) \in DOMAIN store']_vars

\* The keys a step writes: new keys and keys whose entry changes
Written(st, st2) == { k \in DOMAIN st2 : k \notin DOMAIN st \/ st2[k] # st[k] }

\* C29: every record fetched for a requested or tracked symbol S is stored
\* under the key of S and returned under map key S: a fetch of a read and a
\* symbol batch write only keys of the symbols they asked for, and the keys
\* of a get_symbol_prices result are among the requested symbols.
C29_CanonicalSymbols ==
  [][/\ (reader.pc = "p_fetch" /\ reader'.pc = "idle")
          => /\ Written(store, store')
                  \subseteq { Key(SYMBOL_PRICE_PREFIX, x) : x \in Range(reader.to_fetch) }
             /\ rres'.ok => DOMAIN rres'.prices \subseteq Range(reader.symbols)
     /\ \A p \in Sweepers :
          (sweeper[p].pc = "symbols" /\ BatchStep(p))
            => Written(store, store')
                 \subseteq { Key(SYMBOL_PRICE_PREFIX, x) : x \in Range(sweeper[p].symbols) }]_vars

\* C30: when a sweep completes, every tracked, non-stale symbol that was due
\* at its start and for which the adapter returned data has a record in the
\* store with the full cache duration as remaining TTL (stated for the sweeps
\* during which the clock does not move).
C30_DueSymbolRefreshed ==
  [][\A p \in Sweepers :
       (ReturnStep(p) /\ sweeper[p].pc \in {"prune", "remove"} /\ sweeper[p].began = now)
         => \A x \in sweeper[p].owed :
              /\ Key(SYMBOL_PRICE_PREFIX, Out(x)) \in DOMAIN store'
              /\ store'[Key(SYMBOL_PRICE_PREFIX, Out(x))].expires - now = cache_duration]_vars

\* C31: the lock is released on every exit path of update_all_cached_data:
\* when a call returns, Ok or Err, the lock is free, and it is never held by
\* a task whose sweep has finished or has not yet acquired it.
C31_LockReleasedOnReturn ==
  [][\A p \in Sweepers :
       /\ ReturnStep(p) => (update_lock' = "free" /\ sres'.status \in {"Ok", "Err"})
       /\ update_lock' = p => Running(p)']_vars

\* A sweep has returned Err on a store error and a later sweep holds the lock
C31_Witness ==
  /\ sres.status = "Err"
  /\ sres.store_failed
  /\ \E p \in Sweepers : update_lock = p /\ ~sweeper[p].waited /\ sweeper[p].pc = "due"

\* The requested symbols with no record under their price key
Missed(symbols) ==
  { x \in Range(symbols) : Key(SYMBOL_PRICE_PREFIX, x) \notin DOMAIN store }

\* C32: within one get_symbol_prices the adapter is invoked at most once,
\* with exactly the requested symbols that missed the store, and only after
\* the tracking and the lookup of every requested symbol; it is not invoked
\* when every requested symbol is a hit.
C32_OneAdapterCallForMisses ==
  [][/\ (reader.pc = "p_lookup" /\ reader'.pc # "p_lookup")
          => /\ Missed(reader.symbols) = {} => (reader'.pc = "idle" /\ rres'.calls = 0)
             /\ Missed(reader.symbols) # {}
                  => (reader'.pc = "p_fetch" /\ Range(reader'.to_fetch) = Missed(reader.symbols))
     /\ (reader.pc = "p_fetch" /\ reader'.pc # "p_fetch")
          => /\ rres'.calls = 1
             /\ rres'.asked = reader.to_fetch
             /\ reader'.pc = "idle"
     /\ (reader.pc = "idle" /\ started' # started /\ sweeper' = sweeper
           /\ rres'.kind = "prices")
          => rres'.calls = 0]_vars

\* A read of two symbols of which one is a hit has asked the adapter for the other
C32_Witness ==
  /\ rres.kind = "prices" /\ rres.ok /\ rres.calls = 1
  /\ Len(rres.symbols) = 2
  /\ rres.hits # {}
  /\ Len(rres.asked) = 1

\* C33: the read path never acquires the update lock: the lock is free or
\* held by a sweep, and every step of get_symbol_prices and of
\* get_market_indices can be taken whoever holds the lock, so that a read
\* starts and completes while a sweep is running.
C33_ReadsNeverLock ==
  /\ update_lock \in {"free"} \cup Sweepers
  /\ started < MaxCalls /\ reader.pc = "idle"
       => /\ ENABLED GetSymbolPrices(<<SymA>>, Working)
          /\ ENABLED GetMarketIndices(<<SymBUS>>, Working)
  /\ reader.pc = "p_lookup" => ENABLED SymbolPricesLookup(Working)
  /\ reader.pc = "p_fetch" => ENABLED SymbolPricesFetch(Working)
  /\ reader.pc = "i_lookup" => ENABLED MarketIndicesLookup(Working)
  /\ reader.pc = "i_fetch" => ENABLED MarketIndicesFetch(Working)

\* A read of A that was tracked after the running sweep computed its due-set
\* has returned while the sweep still holds the lock
C33_Witness ==
  \E p \in Sweepers :
    /\ update_lock = p
    /\ sweeper[p].pc \in {"symbols", "indices", "prune", "remove"}
    /\ SymA \notin Range(sweeper[p].symbols)
    /\ SymA \in Members(accessed)
    /\ rres.kind = "prices" /\ rres.ok /\ rres.calls = 1 /\ rres.symbols = <<SymA>>

\* C35: set_provider(p) installs p and refreshes from it: when p answers
\* with a non-empty list of indices in time, the indices collection holds
\* p's records when set_provider returns, and the refresh set_provider has
\* started never waits for the provider lock that set_provider holds.
C35_SetProviderRefreshes ==
  [][/\ (indexsvc.set_provider = "waiting" /\ indexsvc'.set_provider = "idle")
          => LET p == indexsvc.installed.value
             IN (p.ok /\ p.quick /\ DOMAIN p.indices # {})
                  => \A s \in DOMAIN p.indices : indexsvc'.indices[s] = p.indices[s]
     /\ ~(indexsvc'.refresh["set_provider"].pc = "lock" /\ ~ReadLockFree(indexsvc'))]_vars

\* C36: every sweep that has acquired the cycle lock performs the
\* stale-pruning step before it releases the lock, also when the store fails
\* while the due-sets are computed; a failure of the pruning step does not
\* change the Ok result of the sweep.
C36_PruneBeforeRelease ==
  [][\A p \in Sweepers :
       (update_lock = p /\ update_lock' # p)
         => /\ sweeper[p].pc \in {"prune", "remove"}
            /\ sres'.status = "Ok"]_vars

\* C37: a sweep passes to fetch_market_indices only symbols that were asked
\* for through get_market_indices, and to fetch_market_data only symbols
\* that were asked for through get_symbol_prices.
C37_AdapterAskedPerKind ==
  [][\A p \in Sweepers :
       /\ (sweeper[p].pc = "indices" /\ sweeper'[p] # sweeper[p])
            => Range(Chunk(sweeper[p].indices, sweeper[p].next, IndexChunk))
                 \subseteq tracked_by.indices
       /\ (sweeper[p].pc = "symbols" /\ sweeper'[p] # sweeper[p])
            => Range(Chunk(sweeper[p].symbols, sweeper[p].next, SymbolChunk))
                 \subseteq tracked_by.prices]_vars

\* The entry of key k, value and expiry, is the same before and after the step
SameRecord(k) ==
  /\ k \in DOMAIN store <=> k \in DOMAIN store'
  /\ k \in DOMAIN store => store'[k] = store[k]

C39_CacheHitSameRequest ==
  (news.result.status = "Ok" /\ news.result.hit)
    => news.result.response.request = news.result.request

\* C34: initialize_cache terminates for every store content: once begun it
\* returns, also when the symbols come from the store and the follow-up
\* fetch_and_merge_upstox_symbols takes the write lock, and the lock is free
\* when it has returned.
C34_InitializeCacheTerminates ==
  (symsvc.pc = "idle") ~> (symsvc.pc = "done" /\ symsvc.lock = "free")
====
